---- MODULE Spec2Model ----
(***************************************************************************)
(* A model of the merge-and-aggregate engine of DebatES-dataset-methods:   *)
(*   compile_xml.py        temporal assignment and the document assembler  *)
(*   classify_emotions.py  the merge-back of classifier records            *)
(*                                                                         *)
(* Python values are modelled as follows.                                  *)
(*   - a tuple or list is a TLA+ sequence; a tuple (label, start) is       *)
(*     <<label, start>>, so the Python index [0] is [1] here and [1] is [2]*)
(*   - None is the empty tuple and a value v that may be None is <<v>>     *)
(*     (None is distinct from every string and from every list)            *)
(*   - a time is the number of microseconds parse_time's float stands for  *)
(*     (the float sum of line 100 is injective on microsecond instants of  *)
(*     one day, so equality and order of the floats are those of integers) *)
(*   - a text is a sequence of one-character strings                       *)
(***************************************************************************)
EXTENDS Integers, Sequences, FiniteSets, TLC

VARIABLES
    call,           \* the last call of a temporal-assignment function
    input,          \* generate_xml: the files of the debate
    pc,             \* generate_xml: where the run is
    df,             \* generate_xml: the rows of the segments table
    blocks,         \* generate_xml: what load_blocks returned
    topics,         \* generate_xml: what load_topics returned
    entities,       \* generate_xml: what load_entities returned
    proposals,      \* generate_xml: what load_proposals returned
    fact_checking,  \* generate_xml: what load_fact_checking returned
    participants_dict,
    interventions_dict,
    root,           \* generate_xml: the element tree
    row,            \* generate_xml: the rows of df processed so far
    intervention_global_id,
    placed,         \* history: the id given to each row processed, or None
    emo_input,      \* generate_emotions: the document and the model's response
    epc,            \* generate_emotions: where the run is
    filtered_root,  \* generate_emotions: the filtered tree
    lines,          \* generate_emotions: the lines of the response
    line_no,        \* generate_emotions: the lines processed so far
    pass,           \* generate_emotions: 1, or 2 for the batch applied again
    once,           \* history: the filtered tree after the first pass
    agg_input,      \* aggregation: the XML files of the directory
    apc,            \* aggregation: where the run is
    file_no,        \* aggregation: the files taken
    block_no,       \* aggregation: the blocks of the file taken
    int_no,         \* aggregation: the interventions of the block taken
    global_metrics, \* aggregation: the global record
    speaker_metrics,\* aggregation: speaker key -> record
    party_metrics,  \* aggregation: party key -> record
    local,          \* aggregation: the locals of process_xml
    processed,      \* history: the interventions aggregated
    main_input,     \* compile_xml main loop: per date, the files that exist
    mpc,            \* compile_xml main loop: where the run is
    fecha_no,       \* compile_xml main loop: the dates taken
    outputs,        \* compile_xml main loop: date number -> document written
    max_calls,      \* rate limiter: the argument max_calls
    interval,       \* rate limiter: the argument interval
    call_count,     \* rate limiter: the count threaded through the calls
    start_time,     \* rate limiter: the start time threaded through the calls
    clock,          \* rate limiter: time.time(), in seconds
    issued          \* history: the time of every API call issued

vars ==
    <<call, input, pc, df, blocks, topics, entities, proposals, fact_checking,
      participants_dict, interventions_dict, root, row, intervention_global_id,
      placed, emo_input, epc, filtered_root, lines, line_no, pass, once,
      agg_input, apc, file_no, block_no, int_no, global_metrics, speaker_metrics,
      party_metrics, local, processed, main_input, mpc, fecha_no, outputs,
      max_calls, interval, call_count, start_time, clock, issued>>

aggVars ==
    <<agg_input, apc, file_no, block_no, int_no, global_metrics, speaker_metrics,
      party_metrics, local, processed>>

mainVars == <<main_input, mpc, fecha_no, outputs>>

\* the loop of compile_xml.py before its first date
MainIdle ==
    /\ mpc = "loop"
    /\ fecha_no = 0
    /\ outputs = <<>>

rateVars == <<max_calls, interval, call_count, start_time, clock, issued>>

\* no rate-limited call made
RateIdle ==
    /\ max_calls = 0
    /\ interval = 0
    /\ call_count = 0
    /\ start_time = 0
    /\ clock = 0
    /\ issued = <<>>

\* generate_emotions before it is called
NoEmoInput == [xml |-> <<>>, response |-> <<>>]

emoVars == <<emo_input, epc, filtered_root, lines, line_no, pass, once>>

EmoIdle ==
    /\ epc = "idle"
    /\ filtered_root = <<>>
    /\ lines = <<>>
    /\ line_no = 0
    /\ pass = 1
    /\ once = <<>>

None == <<>>
Some(v) == <<v>>

Range(s) == {s[i] : i \in DOMAIN s}

(***************************************************************************)
(* Bounds of the model.                                                    *)
(***************************************************************************)
MaxTime == 3        \* start times of the pure-function lists are 0..MaxTime
MaxBlocks == 3      \* longest interval list handed to assign_block/assign_topic
MaxEntries == 2     \* longest list handed to an exact-timestamp lookup

Times == 0..MaxTime
QueryTimes == 0..(MaxTime + 1)
Titles == {"", "Economy", "Health"}

SeqsUpTo(S, n) == UNION {[1..k -> S] : k \in 0..n}

\* lists of (label, start) as load_blocks / load_topics return them: sorted by start
SortedIntervalLists ==
    {L \in SeqsUpTo(Titles \X Times, MaxBlocks) :
        \A i \in 1..(Len(L) - 1) : L[i][2] <= L[i + 1][2]}

(***************************************************************************)
(* compile_xml.py 177-187: interval lookups.                               *)
(***************************************************************************)
RECURSIVE assign_block_loop(_, _, _)
assign_block_loop(time, block_list, i) ==
    IF i > Len(block_list) - 1
    THEN IF block_list # <<>> THEN Some(block_list[Len(block_list)][1]) ELSE None
    ELSE IF block_list[i][2] <= time /\ time < block_list[i + 1][2]
         THEN Some(block_list[i][1])
         ELSE assign_block_loop(time, block_list, i + 1)

\* a bug: the lower bound of the interval test is strict
RECURSIVE assign_block_strict(_, _, _)
assign_block_strict(time, block_list, i) ==
    IF i > Len(block_list) - 1
    THEN IF block_list # <<>> THEN Some(block_list[Len(block_list)][1]) ELSE None
    ELSE IF block_list[i][2] < time /\ time < block_list[i + 1][2]
         THEN Some(block_list[i][1])
         ELSE assign_block_strict(time, block_list, i + 1)

assign_block_mut(time, block_list) == assign_block_strict(time, block_list, 1)

assign_block(time, block_list) == assign_block_loop(time, block_list, 1)

RECURSIVE assign_topic_loop(_, _, _)
assign_topic_loop(time, topic_list, i) ==
    IF i > Len(topic_list) - 1
    THEN IF topic_list # <<>> THEN Some(topic_list[Len(topic_list)][1]) ELSE None
    ELSE IF topic_list[i][2] <= time /\ time < topic_list[i + 1][2]
         THEN Some(topic_list[i][1])
         ELSE assign_topic_loop(time, topic_list, i + 1)

\* a bug: the fall-through returns the first label instead of the last
RECURSIVE assign_topic_first(_, _, _)
assign_topic_first(time, topic_list, i) ==
    IF i > Len(topic_list) - 1
    THEN IF topic_list # <<>> THEN Some(topic_list[1][1]) ELSE None
    ELSE IF topic_list[i][2] <= time /\ time < topic_list[i + 1][2]
         THEN Some(topic_list[i][1])
         ELSE assign_topic_first(time, topic_list, i + 1)

assign_topic_mut(time, topic_list) == assign_topic_first(time, topic_list, 1)

assign_topic(time, topic_list) == assign_topic_loop(time, topic_list, 1)

(***************************************************************************)
(* compile_xml.py 189-205: exact-timestamp lookups.  An entry is           *)
(* <<time, payload>>.                                                      *)
(***************************************************************************)
RECURSIVE assign_entities_loop(_, _, _)
assign_entities_loop(time, entity_list, i) ==
    IF i > Len(entity_list) THEN <<>>
    ELSE IF entity_list[i][1] = time THEN entity_list[i][2]
         ELSE assign_entities_loop(time, entity_list, i + 1)

assign_entities(time, entity_list) == assign_entities_loop(time, entity_list, 1)

RECURSIVE assign_proposals_loop(_, _, _)
assign_proposals_loop(time, proposal_list, i) ==
    IF i > Len(proposal_list) THEN None
    ELSE IF proposal_list[i][1] = time THEN Some(proposal_list[i][2])
         ELSE assign_proposals_loop(time, proposal_list, i + 1)

\* a bug: a tolerance window of one time unit instead of equality
RECURSIVE assign_proposals_near(_, _, _)
assign_proposals_near(time, proposal_list, i) ==
    IF i > Len(proposal_list) THEN None
    ELSE IF proposal_list[i][1] <= time /\ time <= proposal_list[i][1] + 1
         THEN Some(proposal_list[i][2])
         ELSE assign_proposals_near(time, proposal_list, i + 1)

assign_proposals_mut(time, proposal_list) == assign_proposals_near(time, proposal_list, 1)

assign_proposals(time, proposal_list) == assign_proposals_loop(time, proposal_list, 1)

RECURSIVE assign_fact_checking_loop(_, _, _)
assign_fact_checking_loop(time, fact_checking_list, i) ==
    IF i > Len(fact_checking_list) THEN None
    ELSE IF fact_checking_list[i][1] = time THEN Some(fact_checking_list[i][2])
         ELSE assign_fact_checking_loop(time, fact_checking_list, i + 1)

assign_fact_checking(time, fact_checking_list) ==
    assign_fact_checking_loop(time, fact_checking_list, 1)

(***************************************************************************)
(* Strings.  A text is a sequence of one-character strings; Python orders  *)
(* strings by code point, and CodePoints gives the code points of the      *)
(* mention types and texts of the model.                                   *)
(***************************************************************************)
DigitChars == <<"0", "1", "2", "3", "4", "5", "6", "7", "8", "9">>

\* str(n) of an integer n >= 0
RECURSIVE Decimal(_)
Decimal(n) ==
    IF n < 10 THEN <<DigitChars[n + 1]>>
    ELSE Append(Decimal(n \div 10), DigitChars[(n % 10) + 1])

\* f"{n:03d}": the decimal digits, zero-padded on the left to three at least
ZeroPad3(n) ==
    LET d == Decimal(n)
    IN  IF Len(d) >= 3 THEN d ELSE [i \in 1..(3 - Len(d)) |-> "0"] \o d

\* f"<prefix>{n}"
FmtId(prefix, n) == prefix \o Decimal(n)

CodePoints(s) ==
    CASE s = "" -> <<>>
      [] s = "Ana" -> <<65, 110, 97>>
      [] s = "ORG" -> <<79, 82, 71>>
      [] s = "PER" -> <<80, 69, 82>>
      [] s = "X" -> <<88>>

RECURSIVE SeqLess(_, _)
SeqLess(a, b) ==
    IF b = <<>> THEN FALSE
    ELSE IF a = <<>> THEN TRUE
    ELSE IF a[1] # b[1] THEN a[1] < b[1]
    ELSE SeqLess(Tail(a), Tail(b))

StrLess(a, b) == SeqLess(CodePoints(a), CodePoints(b))

\* the order of the key (x[0], x[1]) of line 262
PairLess(x, y) == StrLess(x[1], y[1]) \/ (x[1] = y[1] /\ StrLess(x[2], y[2]))

(***************************************************************************)
(* compile_xml.py 95-100: parse_time.  A timestamp string is a record      *)
(* [h, m, s, f]: the hours field (None when the string has two fields      *)
(* before the fraction, so that the first strptime format fails and the    *)
(* second is used), the minutes, the seconds and the fraction's digits     *)
(* (one to six; %f pads them with zeros on the right).                     *)
(***************************************************************************)
RECURSIVE DigitsValue(_)
DigitsValue(d) ==
    IF d = <<>> THEN 0 ELSE 10 * DigitsValue(SubSeq(d, 1, Len(d) - 1)) + d[Len(d)]

\* a bug: the fraction's digits are read as a number of microseconds, without
\* the zeros %f pads them with
Microsecond_mut(f) == DigitsValue(f)

Microsecond(f) == DigitsValue(f \o [i \in 1..(6 - Len(f)) |-> 0])

parse_time(time_str) ==
    LET hour == IF time_str.h = None THEN 0 ELSE time_str.h[1]
    IN  (hour * 3600 + time_str.m * 60 + time_str.s) * 1000000
            + Microsecond(time_str.f)

(***************************************************************************)
(* sorted(list, key=...) of lines 110, 120, 139, 157, 175: a stable sort   *)
(* on the k-th component.                                                  *)
(***************************************************************************)
RECURSIVE InsertByField(_, _, _)
InsertByField(x, s, k) ==
    IF s = <<>> THEN <<x>>
    ELSE IF s[Len(s)][k] <= x[k] THEN Append(s, x)
    ELSE Append(InsertByField(x, SubSeq(s, 1, Len(s) - 1), k), s[Len(s)])

RECURSIVE SortedByField(_, _)
SortedByField(s, k) ==
    IF s = <<>> THEN <<>>
    ELSE InsertByField(s[Len(s)], SortedByField(SubSeq(s, 1, Len(s) - 1), k), k)

(***************************************************************************)
(* compile_xml.py 102-175: the loaders.  A file is a sequence of lines; a  *)
(* line is a record with the tag it holds ("BLOQUE", "TEMA", "MENCION",    *)
(* "PROPUESTA", "REVISABLE"), or [tag |-> "time", tiempo |-> t] for a line *)
(* that starts with a timestamp.                                           *)
(***************************************************************************)
RECURSIVE load_blocks_lines(_)
load_blocks_lines(f) ==
    IF f = <<>> THEN <<>>
    ELSE LET line == f[Len(f)]
             before == load_blocks_lines(SubSeq(f, 1, Len(f) - 1))
         IN  IF line.tag = "BLOQUE"
             THEN Append(before, <<line.titulo, parse_time(line.tiempo)>>)
             ELSE before

load_blocks(f) == SortedByField(load_blocks_lines(f), 2)

RECURSIVE load_topics_lines(_)
load_topics_lines(f) ==
    IF f = <<>> THEN <<>>
    ELSE LET line == f[Len(f)]
             before == load_topics_lines(SubSeq(f, 1, Len(f) - 1))
         IN  IF line.tag = "TEMA"
             THEN Append(before, <<line.titulo, parse_time(line.tiempo)>>)
             ELSE before

load_topics(f) == SortedByField(load_topics_lines(f), 2)

\* the token the regular expression of lines 128-131 matches at the start of a
\* line: the timestamp up to its third fraction digit
MatchedToken(t) == [t EXCEPT !.f = SubSeq(t.f, 1, 3)]

\* the loop of load_entities / load_proposals / load_fact_checking over the lines
\* from position i on: st = <<elems, current_time, current_elems>>, item(line)
\* is what a line of the file's tag appends
RECURSIVE load_timed_loop(_, _, _, _)
load_timed_loop(f, i, st, tag) ==
    IF i > Len(f)
    THEN IF st[2] # None THEN Append(st[1], <<st[2][1], st[3]>>) ELSE st[1]
    ELSE LET line == f[i]
         IN  IF line.tag = "time"
             THEN load_timed_loop(f, i + 1,
                    << IF st[2] # None THEN Append(st[1], <<st[2][1], st[3]>>)
                       ELSE st[1],
                       Some(parse_time(MatchedToken(line.tiempo))),
                       <<>> >>, tag)
             ELSE IF line.tag = tag
             THEN load_timed_loop(f, i + 1,
                    <<st[1], st[2], Append(st[3], line.item)>>, tag)
             ELSE load_timed_loop(f, i + 1, st, tag)

load_entities(f) ==
    SortedByField(load_timed_loop(f, 1, <<<<>>, None, <<>>>>, "MENCION"), 1)

load_proposals(f) ==
    SortedByField(load_timed_loop(f, 1, <<<<>>, None, <<>>>>, "PROPUESTA"), 1)

load_fact_checking(f) ==
    SortedByField(load_timed_loop(f, 1, <<<<>>, None, <<>>>>, "REVISABLE"), 1)

(***************************************************************************)
(* compile_xml.py 16-93: debates_metadata.                                 *)
(***************************************************************************)
debates_metadata ==
    "1993-05-24" :> [election_date |-> "1993-06-06", media |-> "Antena 3"] @@
    "2008-02-25" :> [election_date |-> "2008-03-09", media |-> "AcademiaTV"] @@
    "2008-03-03" :> [election_date |-> "2008-03-09", media |-> "AcademiaTV"] @@
    "2011-11-07" :> [election_date |-> "2011-11-20", media |-> "AcademiaTV"] @@
    "2015-11-23" :> [election_date |-> "2015-12-20", media |-> "Universidad Carlos III"] @@
    "2015-11-30" :> [election_date |-> "2015-12-20", media |-> "El Pais"] @@
    "2015-12-14" :> [election_date |-> "2015-12-20", media |-> "Atresmedia - AcademiaTV"] @@
    "2016-06-13" :> [election_date |-> "2016-06-26", media |-> "AcademiaTV"] @@
    "2019-04-16" :> [election_date |-> "2019-04-28", media |-> "RTVE"] @@
    "2019-04-20" :> [election_date |-> "2019-04-28", media |-> "La Sexta"] @@
    "2019-04-22" :> [election_date |-> "2019-04-28", media |-> "RTVE"] @@
    "2019-04-23" :> [election_date |-> "2019-04-28", media |-> "Atresmedia"] @@
    "2019-11-01" :> [election_date |-> "2019-11-10", media |-> "RTVE"] @@
    "2019-11-02" :> [election_date |-> "2019-11-10", media |-> "La Sexta"] @@
    "2019-11-04" :> [election_date |-> "2019-11-10", media |-> "AcademiaTV"] @@
    "2019-11-07" :> [election_date |-> "2019-11-10", media |-> "La Sexta"] @@
    "2023-07-10" :> [election_date |-> "2023-07-23", media |-> "Atresmedia"] @@
    "2023-07-13" :> [election_date |-> "2023-07-23", media |-> "RTVE"] @@
    "2023-07-19" :> [election_date |-> "2023-07-23", media |-> "RTVE"]

(***************************************************************************)
(* compile_xml.py 207-317: generate_xml.                                   *)
(*   input     the files of one debate: segmentos_csv (rows [fecha, inicio,*)
(*             nombre, partido_nombre, texto, stats]), speakers_csv (rows  *)
(*             [speaker_name, stats]) and the five annotation files        *)
(*   pc        "idle" (not called), "rows" (in the loop of line 257),      *)
(*             "written" (line 316 done), "raised" (an exception left      *)
(*             generate_xml)                                               *)
(*   root      the element tree: [date, election_date, media,              *)
(*             participants, blocks]; a block element is [id, topic,       *)
(*             children], its children the "interventions" elements, each  *)
(*             the sequence of its intervention elements                   *)
(*   placed    history variable: per row processed, the intervention id    *)
(*             it was given, None for a row that was dropped               *)
(***************************************************************************)
\* the truth value of a string that may be None, and of a list that may be None
TruthyStr(v) == v # None /\ v[1] # ""
TruthyList(v) == v # None /\ v[1] # <<>>

\* the first occurrences of a list's elements, in order
RECURSIVE Dedup(_)
Dedup(s) ==
    IF s = <<>> THEN <<>>
    ELSE LET before == Dedup(SubSeq(s, 1, Len(s) - 1))
         IN  IF s[Len(s)] \in Range(before) THEN before
             ELSE Append(before, s[Len(s)])

RECURSIVE InsertPair(_, _)
InsertPair(x, s) ==
    IF s = <<>> THEN <<x>>
    ELSE IF ~PairLess(x, s[Len(s)]) THEN Append(s, x)
    ELSE Append(InsertPair(x, SubSeq(s, 1, Len(s) - 1)), s[Len(s)])

RECURSIVE SortedPairs(_)
SortedPairs(s) ==
    IF s = <<>> THEN <<>>
    ELSE InsertPair(s[Len(s)], SortedPairs(SubSeq(s, 1, Len(s) - 1)))

\* a bug: the list is sorted as it is, without the set of line 262
sorted_mentions_mut(entidades_asignadas) == SortedPairs(entidades_asignadas)

\* line 262: sorted({(type, nombre) for ...}, key=lambda x: (x[0], x[1]))
sorted_mentions(entidades_asignadas) == SortedPairs(Dedup(entidades_asignadas))

\* str.split(". "): the fragments of text from position i on, cur the fragment
\* being read
RECURSIVE split_loop(_, _, _)
split_loop(text, i, cur) ==
    IF i > Len(text) THEN <<cur>>
    ELSE IF i < Len(text) /\ text[i] = "." /\ text[i + 1] = " "
         THEN <<cur>> \o split_loop(text, i + 2, <<>>)
         ELSE split_loop(text, i + 1, Append(cur, text[i]))

split(text) == split_loop(text, 1, <<>>)

\* str.strip()
RECURSIVE strip(_)
strip(s) ==
    IF s = <<>> THEN s
    ELSE IF s[1] = " " THEN strip(Tail(s))
    ELSE IF s[Len(s)] = " " THEN strip(SubSeq(s, 1, Len(s) - 1))
    ELSE s

\* lines 309-312: the sentence elements of a text, from fragment k (0-based) on
RECURSIVE sentences_loop(_, _)
sentences_loop(frags, k) ==
    IF k >= Len(frags) THEN <<>>
    ELSE IF frags[k + 1] # <<>>
         THEN <<[id |-> FmtId(<<"s">>, k), text |-> strip(frags[k + 1])]>>
                  \o sentences_loop(frags, k + 1)
         ELSE sentences_loop(frags, k + 1)

sentences_of(texto) == sentences_loop(split(texto), 0)

\* lines 281-282, 286-287, 291-292: the children numbered by enumerate
mention_elements(l) ==
    [k \in 1..Len(l) |-> [id |-> FmtId(<<"e">>, k - 1), type |-> l[k][1], text |-> l[k][2]]]

\* a bug: the items are numbered from 1
numbered_mut(prefix, l) ==
    [k \in 1..Len(l) |-> [id |-> FmtId(prefix, k), text |-> l[k]]]

numbered(prefix, l) ==
    [k \in 1..Len(l) |-> [id |-> FmtId(prefix, k - 1), text |-> l[k]]]

\* a bug: the counter is formatted after it was incremented
intervention_id_mut(n) == <<"i">> \o ZeroPad3(n + 1)

\* line 267
intervention_id_of(n) == <<"i">> \o ZeroPad3(n)

\* a bug: the rows of the speakers table are taken without drop_duplicates
FirstRows_mut(speakers_df) == 1..Len(speakers_df)

\* lines 225-229: drop_duplicates keeps the first row of a name with its index
FirstRows(speakers_df) ==
    {i \in 1..Len(speakers_df) :
        \A j \in 1..(i - 1) : speakers_df[j].speaker_name # speakers_df[i].speaker_name}

NamesOf(rows) == {rows[i].nombre : i \in 1..Len(rows)}

\* line 229: the party of the first row of the speaker
PartyOf(rows, name) ==
    rows[CHOOSE i \in 1..Len(rows) :
            /\ rows[i].nombre = name
            /\ \A j \in 1..(i - 1) : rows[j].nombre # name].partido_nombre

RECURSIVE participant_elements(_, _, _)
participant_elements(speakers_df, rows, i) ==
    IF i > Len(speakers_df) THEN <<>>
    ELSE IF i \in FirstRows(speakers_df)
         THEN <<[id |-> FmtId(<<"p">>, i - 1),
                 full_name |-> speakers_df[i].speaker_name,
                 party |-> PartyOf(rows, speakers_df[i].speaker_name),
                 stats |-> speakers_df[i].stats]>>
                  \o participant_elements(speakers_df, rows, i + 1)
         ELSE participant_elements(speakers_df, rows, i + 1)

\* lines 250-251: blocks_dict maps a title to the last block element created
\* with it
LastWithTitle(bl, title) ==
    CHOOSE k \in 1..Len(bl) :
        bl[k][1] = title /\ \A j \in (k + 1)..Len(bl) : bl[j][1] # title

\* lines 252-253: one "interventions" element per entry of blocks, each under
\* blocks_dict[title]
block_elements(bl) ==
    [k \in 1..Len(bl) |->
        [id |-> FmtId(<<"b">>, k - 1),
         topic |-> bl[k][1],
         children |->
            IF LastWithTitle(bl, bl[k][1]) = k
            THEN [c \in 1..Cardinality({j \in 1..Len(bl) : bl[j][1] = bl[k][1]}) |-> <<>>]
            ELSE <<>>]]

\* interventions_dict: a title to the place <<block, child>> of the last
\* "interventions" element created for it
interventions_places(bl) ==
    [title \in {bl[k][1] : k \in 1..Len(bl)} |->
        <<LastWithTitle(bl, title),
          Cardinality({j \in 1..Len(bl) : bl[j][1] = title})>>]

EmptyRoot ==
    [date |-> "", election_date |-> "", media |-> "",
     participants |-> <<>>, blocks |-> <<>>]

NoInput ==
    [segmentos_csv |-> <<>>, speakers_csv |-> <<>>, blocks_txt |-> <<>>,
     topics_txt |-> <<>>, entidades_txt |-> <<>>, proposals_txt |-> <<>>,
     fact_checking_txt |-> <<>>]

xmlVars ==
    <<input, pc, df, blocks, topics, entities, proposals, fact_checking,
      participants_dict, interventions_dict, root, row,
      intervention_global_id, placed>>

XmlIdle ==
    /\ pc = "idle"
    /\ df = <<>>
    /\ blocks = <<>>
    /\ topics = <<>>
    /\ entities = <<>>
    /\ proposals = <<>>
    /\ fact_checking = <<>>
    /\ participants_dict = [n \in {} |-> <<>>]
    /\ interventions_dict = [n \in {} |-> <<>>]
    /\ root = EmptyRoot
    /\ row = 0
    /\ intervention_global_id = 0
    /\ placed = <<>>

\* lines 208-255: generate_xml, called with the files of a debate, reads them
\* and builds the root, the participants and the blocks
Setup ==
    /\ pc = "idle"
    /\ input # NoInput
    /\ df' = input.segmentos_csv
    /\ blocks' = load_blocks(input.blocks_txt)
    /\ topics' = load_topics(input.topics_txt)
    /\ entities' = load_entities(input.entidades_txt)
    /\ proposals' = load_proposals(input.proposals_txt)
    /\ fact_checking' = load_fact_checking(input.fact_checking_txt)
    /\ IF \/ df' = <<>>
          \/ df'[1].fecha \notin DOMAIN debates_metadata
          \/ \E i \in 1..Len(input.speakers_csv) :
                input.speakers_csv[i].speaker_name \notin NamesOf(df')
       THEN \* IndexError (218, 229) or KeyError (219)
            /\ pc' = "raised"
            /\ UNCHANGED <<participants_dict, interventions_dict, root>>
       ELSE /\ pc' = "rows"
            /\ participants_dict' =
                 [n \in {input.speakers_csv[i].speaker_name :
                            i \in 1..Len(input.speakers_csv)} |->
                    FmtId(<<"p">>,
                          (CHOOSE i \in FirstRows(input.speakers_csv) :
                              input.speakers_csv[i].speaker_name = n) - 1)]
            /\ interventions_dict' = interventions_places(blocks')
            /\ root' = [date |-> df'[1].fecha,
                        election_date |-> debates_metadata[df'[1].fecha].election_date,
                        media |-> debates_metadata[df'[1].fecha].media,
                        participants |->
                            participant_elements(input.speakers_csv, df', 1),
                        blocks |-> block_elements(blocks')]
    /\ UNCHANGED <<call, input, row, intervention_global_id, placed, emoVars, aggVars, mainVars, rateVars>>

\* lines 266-312: the intervention element of a row
intervention_element(r, id, participant_id, topic_asignado, entidades_asignadas, proposals_asignadas, fact_checking_asignado) ==
    [id |-> id,
     participant_id |-> participant_id,
     topic |-> topic_asignado,
     mentions |-> IF entidades_asignadas # <<>>
                  THEN Some(mention_elements(entidades_asignadas)) ELSE None,
     proposals |-> IF TruthyList(proposals_asignadas)
                   THEN Some(numbered(<<"p", "r">>, proposals_asignadas[1])) ELSE None,
     claims |-> IF TruthyList(fact_checking_asignado)
                THEN Some(numbered(<<"r">>, fact_checking_asignado[1])) ELSE None,
     linguistic_stats |-> r.stats,
     sentences |-> sentences_of(r.texto)]

\* lines 257-312: one iteration of the loop over the rows of df
ProcessRow ==
    /\ pc = "rows"
    /\ row < Len(df)
    /\ LET r == df[row + 1]
           seg_time == parse_time(r.inicio)
           block_topic == assign_block(seg_time, blocks)
           topic_asignado == assign_topic(seg_time, topics)
           entidades_asignadas == sorted_mentions(assign_entities(seg_time, entities))
           proposals_asignadas == assign_proposals(seg_time, proposals)
           fact_checking_asignado == assign_fact_checking(seg_time, fact_checking)
           id == intervention_id_of(intervention_global_id)
       IN  IF TruthyStr(block_topic)
           THEN IF r.nombre \notin DOMAIN participants_dict
                THEN \* KeyError (273)
                     /\ pc' = "raised"
                     /\ UNCHANGED <<root, row, intervention_global_id, placed>>
                ELSE LET at == interventions_dict[block_topic[1]]
                         el == intervention_element(r, id, participants_dict[r.nombre],
                                   topic_asignado, entidades_asignadas,
                                   proposals_asignadas, fact_checking_asignado)
                     IN  /\ root' = [root EXCEPT
                                 !.blocks[at[1]].children[at[2]] = Append(@, el)]
                         /\ intervention_global_id' = intervention_global_id + 1
                         /\ placed' = Append(placed, Some(id))
                         /\ row' = row + 1
                         /\ pc' = pc
           ELSE /\ placed' = Append(placed, None)
                /\ row' = row + 1
                /\ UNCHANGED <<pc, root, intervention_global_id>>
    /\ UNCHANGED <<call, input, df, blocks, topics, entities, proposals,
                   fact_checking, participants_dict, interventions_dict, emoVars, aggVars, mainVars, rateVars>>

\* the intervention elements of the tree, in document order
RECURSIVE Flatten(_)
Flatten(ss) == IF ss = <<>> THEN <<>> ELSE ss[1] \o Flatten(Tail(ss))

Interventions(tree) ==
    Flatten([k \in 1..Len(tree.blocks) |-> Flatten(tree.blocks[k].children)])

\* lines 314-316: the tree is serialised; an attribute that is None cannot be
\* (the topic of an intervention when there is no topic at all)
WriteXml ==
    /\ pc = "rows"
    /\ row = Len(df)
    /\ pc' = IF \E k \in 1..Len(Interventions(root)) :
                    Interventions(root)[k].topic = None
             THEN "raised" ELSE "written"
    /\ UNCHANGED <<call, input, df, blocks, topics, entities, proposals,
                   fact_checking, participants_dict, interventions_dict, root, row,
                   intervention_global_id, placed, emoVars, aggVars, mainVars, rateVars>>

(***************************************************************************)
(* compile_xml.py 342-364: the loop over fechas.  A date of main_input is  *)
(* [present, files]: the required files that exist and what they hold.    *)
(*   mpc      "loop" (between two dates, or past the last), "call" (inside *)
(*            generate_xml), "aborted" (an exception has left the loop:    *)
(*            nothing catches it and the script ends)                      *)
(*   outputs  the documents written, by the number of their date           *)
(***************************************************************************)
RequiredFiles ==
    {"segments", "blocks", "topics", "mentions", "proposals", "claims", "speakers"}

\* a bug: the segments table alone is looked for
all_exist_mut(debate) == "segments" \in debate.present

\* lines 345-353: all(os.path.exists(f) for f in [...])
all_exist(debate) == RequiredFiles \subseteq debate.present

\* lines 342-364: the next date; with a file missing the loop continues (355),
\* otherwise generate_xml is called on the files of the date
NextFecha ==
    /\ mpc = "loop"
    /\ fecha_no < Len(main_input)
    /\ fecha_no' = fecha_no + 1
    /\ LET debate == main_input[fecha_no + 1]
       IN  IF all_exist(debate)
           THEN /\ mpc' = "call"
                /\ input' = debate.files
           ELSE /\ mpc' = "loop"
                /\ input' = NoInput
    /\ pc' = "idle"
    /\ df' = <<>>
    /\ blocks' = <<>>
    /\ topics' = <<>>
    /\ entities' = <<>>
    /\ proposals' = <<>>
    /\ fact_checking' = <<>>
    /\ participants_dict' = [n \in {} |-> <<>>]
    /\ interventions_dict' = [n \in {} |-> <<>>]
    /\ root' = EmptyRoot
    /\ row' = 0
    /\ intervention_global_id' = 0
    /\ placed' = <<>>
    /\ UNCHANGED <<call, main_input, outputs, emoVars, aggVars, rateVars>>

\* line 357 returns, or an exception of generate_xml leaves the loop
EndCall ==
    /\ mpc = "call"
    /\ pc \in {"written", "raised"}
    /\ IF pc = "written"
       THEN /\ outputs' = (fecha_no :> root) @@ outputs
            /\ mpc' = "loop"
       ELSE /\ outputs' = outputs
            /\ mpc' = "aborted"
    /\ UNCHANGED <<call, xmlVars, main_input, fecha_no, emoVars, aggVars, rateVars>>

(***************************************************************************)
(* gemini_api.py 27-56: rate_limited_api_call.  Time is counted in whole   *)
(* seconds; clock is what time.time() returns.  The caller threads         *)
(* call_count and start_time through its calls, from call_count 0 and the  *)
(* time of its start (classify_emotions.py 96).                            *)
(*   issued   history variable: the time at which each call of             *)
(*            client.generate_content (line 47) was made                   *)
(***************************************************************************)
MaxClock == 6       \* seconds of a run
MaxLatency == 1     \* seconds an API call may take

\* lines 40-45: the time at which line 47 is reached by a call entered at now
wake_time(count, start, now, limit, span) ==
    IF count >= limit /\ now - start < span THEN now + (span - (now - start))
    ELSE now

\* lines 40-56: one call; the API takes latency seconds to answer
RateLimitedApiCall ==
    \E latency \in 0..MaxLatency :
        LET at == wake_time(call_count, start_time, clock, max_calls, interval)
        IN  /\ at + latency <= MaxClock
            /\ call_count' = (IF call_count >= max_calls THEN 0 ELSE call_count) + 1
            /\ start_time' = IF call_count >= max_calls THEN at ELSE start_time
            /\ issued' = Append(issued, at)
            /\ clock' = at + latency
            /\ UNCHANGED <<max_calls, interval>>
            /\ UNCHANGED <<call, xmlVars, emoVars, aggVars, mainVars>>

\* the caller works for a second between two calls
Tick ==
    /\ clock < MaxClock
    /\ clock' = clock + 1
    /\ UNCHANGED <<max_calls, interval, call_count, start_time, issued>>
    /\ UNCHANGED <<call, xmlVars, emoVars, aggVars, mainVars>>

(***************************************************************************)
(* classify_emotions.py 10-65: generate_emotions.                          *)
(*   emo_input      the document at xml_path (its intervention elements in *)
(*                  document order, each [id, sentences], a sentence       *)
(*                  [id, text] with text None for an element without text) *)
(*                  and the lines of the text the model answers with       *)
(*   epc            "idle", "lines" (the loop of line 40), "written", "raised" *)
(*   filtered_root  the tree of lines 24-35; a sentence is [id, text,      *)
(*                  emotions], emotions None while the attribute is not set*)
(*                  and <<tags>> once it is (tags what attrib.get gave)    *)
(*   lines          model_response_text.splitlines(), each line stripped:  *)
(*                  [kind |-> "blank"], [kind |-> "garbage"] (ParseError)  *)
(*                  or [kind |-> "element", int_id, sent_id, tags], an     *)
(*                  attribute the element lacks being None                 *)
(*   line_no        the lines processed so far                             *)
(*   pass           1, and 2 while the same batch is applied once more to  *)
(*                  the tagged tree                                        *)
(*   once           history variable: the tree as the first pass left it   *)
(***************************************************************************)
HasText(sentence) == sentence.text # None /\ sentence.text[1] # <<>>

RECURSIVE filter_sentences(_)
filter_sentences(ss) ==
    IF ss = <<>> THEN <<>>
    ELSE LET before == filter_sentences(SubSeq(ss, 1, Len(ss) - 1))
             sentence == ss[Len(ss)]
         IN  IF HasText(sentence)
             THEN Append(before, [id |-> sentence.id,
                                  text |-> strip(sentence.text[1]),
                                  emotions |-> None])
             ELSE before

\* lines 24-32
filtered_elements(doc) ==
    [i \in 1..Len(doc) |->
        [id |-> doc[i].id, sentences |-> filter_sentences(doc[i].sentences)]]

\* attrib.get("id") == int_id, the attribute present and int_id possibly None
AttrEquals(id, wanted) == wanted # None /\ wanted[1] = id

\* a bug: the tags are added to the ones the sentence has
set_emotions_mut(sentence, tags) ==
    IF sentence.emotions # None /\ sentence.emotions[1] # None /\ tags # None
    THEN [sentence EXCEPT !.emotions = Some(Some(sentence.emotions[1][1] \o tags[1]))]
    ELSE [sentence EXCEPT !.emotions = Some(tags)]

\* line 57
set_emotions(sentence, tags) == [sentence EXCEPT !.emotions = Some(tags)]

\* a bug: with no sentence of the id, the first sentence is set
tag_first_sentence_mut(ss, sent_id, tags) ==
    LET hits == {j \in 1..Len(ss) : AttrEquals(ss[j].id, sent_id)}
    IN  IF hits = {}
        THEN IF ss = <<>> THEN ss ELSE [ss EXCEPT ![1] = set_emotions(ss[1], tags)]
        ELSE LET j == CHOOSE j \in hits : \A k \in hits : j <= k
             IN  [ss EXCEPT ![j] = set_emotions(ss[j], tags)]

\* lines 55-58: the first sentence with the id is set, and the loop breaks
tag_first_sentence(ss, sent_id, tags) ==
    LET hits == {j \in 1..Len(ss) : AttrEquals(ss[j].id, sent_id)}
    IN  IF hits = {} THEN ss
        ELSE LET j == CHOOSE j \in hits : \A k \in hits : j <= k
             IN  [ss EXCEPT ![j] = set_emotions(ss[j], tags)]

\* lines 53-58: every intervention with the id is visited
merge_record(doc, int_id, sent_id, tags) ==
    [i \in 1..Len(doc) |->
        IF AttrEquals(doc[i].id, int_id)
        THEN [doc[i] EXCEPT !.sentences = tag_first_sentence(@, sent_id, tags)]
        ELSE doc[i]]

\* lines 21-39: parse the file, build the filtered tree, ask the model
BuildFiltered ==
    /\ epc = "idle"
    /\ filtered_root' = filtered_elements(emo_input.xml)
    /\ lines' = emo_input.response
    /\ line_no' = 0
    /\ epc' = "lines"
    /\ UNCHANGED <<emo_input, pass, once>>
    /\ UNCHANGED <<call, xmlVars, aggVars, mainVars, rateVars>>

\* a bug: a line that does not parse ends the run (ParseError not caught)
line_step_mut(doc, line) ==
    IF line.kind = "element"
    THEN [tree |-> merge_record(doc, line.int_id, line.sent_id, line.tags), epc |-> "lines"]
    ELSE [tree |-> doc, epc |-> IF line.kind = "garbage" THEN "raised" ELSE "lines"]

\* lines 41-58: the tree and the place of the run after one line; a blank
\* line (42-43) and a line that does not parse (44-47) continue the loop
line_step(doc, line) ==
    IF line.kind = "element"
    THEN [tree |-> merge_record(doc, line.int_id, line.sent_id, line.tags), epc |-> "lines"]
    ELSE [tree |-> doc, epc |-> "lines"]

\* lines 40-58: one line of the response
MergeLine ==
    /\ epc = "lines"
    /\ line_no < Len(lines)
    /\ LET after == line_step(filtered_root, lines[line_no + 1])
       IN  /\ filtered_root' = after.tree
           /\ epc' = after.epc
    /\ line_no' = line_no + 1
    /\ UNCHANGED <<emo_input, lines, pass, once>>
    /\ UNCHANGED <<call, xmlVars, aggVars, mainVars, rateVars>>

\* line 60: ET.tostring raises TypeError on an attribute whose value is None
Serialisable(doc) ==
    \A i \in 1..Len(doc) : \A j \in 1..Len(doc[i].sentences) :
        doc[i].sentences[j].emotions # Some(None)

\* lines 60-65: the tree is serialised and written to output_path
WriteOutput ==
    /\ epc = "lines"
    /\ line_no = Len(lines)
    /\ epc' = IF Serialisable(filtered_root) THEN "written" ELSE "raised"
    /\ UNCHANGED <<emo_input, filtered_root, lines, line_no, pass, once>>
    /\ UNCHANGED <<call, xmlVars, aggVars, mainVars, rateVars>>

\* lines 40-58 once more: the same batch applied to the tree it has tagged
Reapply ==
    /\ epc = "written"
    /\ pass = 1
    /\ pass' = 2
    /\ once' = filtered_root
    /\ line_no' = 0
    /\ epc' = "lines"
    /\ UNCHANGED <<emo_input, filtered_root, lines>>
    /\ UNCHANGED <<call, xmlVars, aggVars, mainVars, rateVars>>

(***************************************************************************)
(* generate_html_reports.py 116-500: the aggregation of debate files.      *)
(* A text is a sequence of tokens, a token being a word or one separator   *)
(* character (" ", ",", ":", "(", ")").  An attribute or a text that an    *)
(* element may lack is None or <<value>>.  A dict is a function on the set *)
(* of its keys, a defaultdict one read with a default.                     *)
(***************************************************************************)
attr(a, default) == IF a = None THEN default ELSE a[1]

dict_get(d, k, default) == IF k \in DOMAIN d THEN d[k] ELSE default

dict_set(d, k, v) == [x \in (DOMAIN d) \cup {k} |-> IF x = k THEN v ELSE d[x]]

\* d[k] += n on a defaultdict(int) or defaultdict(float)
dict_add(d, k, n) == dict_set(d, k, dict_get(d, k, 0) + n)

\* d[k] += 1 for every k of a list, in order
RECURSIVE count_all(_, _)
count_all(d, ks) ==
    IF ks = <<>> THEN d ELSE count_all(dict_add(d, ks[1], 1), Tail(ks))

\* sep.join(parts)
RECURSIVE join(_, _)
join(sep, parts) ==
    IF parts = <<>> THEN <<>>
    ELSE IF Len(parts) = 1 THEN parts[1]
    ELSE parts[1] \o sep \o join(sep, Tail(parts))

\* text.split(","): the fragments of text from position i on
RECURSIVE split_comma(_, _, _)
split_comma(text, i, cur) ==
    IF i > Len(text) THEN <<cur>>
    ELSE IF text[i] = ","
         THEN <<cur>> \o split_comma(text, i + 1, <<>>)
         ELSE split_comma(text, i + 1, Append(cur, text[i]))

\* len(text.split()): the words of a text
RECURSIVE num_words(_)
num_words(text) ==
    IF text = <<>> THEN 0
    ELSE (IF text[1] = " " THEN 0 ELSE 1) + num_words(Tail(text))

RECURSIVE SumSeq(_)
SumSeq(s) == IF s = <<>> THEN 0 ELSE s[1] + SumSeq(Tail(s))

Unknown == <<"Unknown">>
NoParty == <<"No", " ", "party">>

\* lines 116-128: participants_mapping, a later participant with the same id
\* replacing an earlier one
RECURSIVE parse_participants(_)
parse_participants(participants_node) ==
    IF participants_node = <<>> THEN <<>>
    ELSE LET participant == participants_node[Len(participants_node)]
         IN  dict_set(parse_participants(SubSeq(participants_node, 1,
                                                Len(participants_node) - 1)),
                      participant.id,
                      [full_name |-> strip(attr(participant.full_name, Unknown)),
                       party |-> strip(attr(participant.party, NoParty))])

\* line 133
speaker_name_of(mapping, pid) ==
    IF pid \in DOMAIN mapping THEN mapping[pid].full_name ELSE Unknown

\* line 134
speaker_key_of(mapping, pid) ==
    LET name == strip(speaker_name_of(mapping, pid))
    IN  IF name # <<>> THEN name ELSE Unknown

\* line 135
party_of(mapping, pid) ==
    strip(IF pid \in DOMAIN mapping THEN mapping[pid].party ELSE NoParty)

\* line 136
party_key_of(mapping, pid) ==
    IF party_of(mapping, pid) # <<>> THEN party_of(mapping, pid) ELSE NoParty

\* lines 140-162; the key "intervention_mentions" is not there yet (None)
new_speaker(speaker_key, party) ==
    [full_name |-> speaker_key, party |-> party,
     interventions |-> 0, sentences |-> 0, words |-> 0,
     claims |-> 0, proposals |-> 0, fallacies |-> 0,
     linguistic_stats |-> <<>>, linguistic_stats_count |-> 0,
     sentence_lengths |-> <<>>, sentences_per_intervention |-> <<>>,
     intervention_word_counts |-> <<>>,
     emotions |-> <<>>,
     claims_texts |-> <<>>, proposals_texts |-> <<>>, fallacies_texts |-> <<>>,
     topics |-> <<>>, debates |-> {},
     emotions_by_debate |-> <<>>, interventions_emotions |-> <<>>,
     intervention_mentions |-> None]

\* lines 166-188
new_party ==
    [participants |-> {},
     interventions |-> 0, sentences |-> 0, words |-> 0,
     claims |-> 0, proposals |-> 0, fallacies |-> 0,
     linguistic_stats |-> <<>>, linguistic_stats_count |-> 0,
     sentence_lengths |-> <<>>, sentences_per_intervention |-> <<>>,
     intervention_word_counts |-> <<>>,
     emotions |-> <<>>,
     claims_texts |-> <<>>, proposals_texts |-> <<>>, fallacies_texts |-> <<>>,
     topics |-> <<>>, debates |-> {},
     emotions_by_debate |-> <<>>, interventions_emotions |-> <<>>,
     intervention_mentions |-> Some(<<>>)]

\* `if intervention_id`, `if sentence.text`, ...: a value that is there and not ""
Truthy(a) == a # None /\ a[1] # <<>>

\* line 203 (no sentence when the node is missing)
sentences_list(intervention) == attr(intervention.sentences, <<>>)

RECURSIVE stripped_texts(_)
stripped_texts(ss) ==
    IF ss = <<>> THEN <<>>
    ELSE (IF Truthy(ss[1].text) THEN <<strip(ss[1].text[1])>> ELSE <<>>)
             \o stripped_texts(Tail(ss))

\* line 204
full_intervention_text(intervention) ==
    join(<<" ">>, stripped_texts(sentences_list(intervention)))

\* lines 209-211 for each sentence
sentence_word_counts(intervention) ==
    [k \in 1..Len(sentences_list(intervention)) |->
        num_words(attr(sentences_list(intervention)[k].text, <<>>))]

\* lines 223-233: the attributes of linguistic-stats whose value float() takes,
\* as <<key, value>>; a value is <<number>> or, when float() raises, None
parsed_stats(intervention) ==
    IF intervention.stats = None THEN <<>>
    ELSE LET attrs == intervention.stats[1]
             RECURSIVE parsed(_)
             parsed(l) ==
                 IF l = <<>> THEN <<>>
                 ELSE (IF l[1][2] # None THEN <<<<l[1][1], l[1][2][1]>>>> ELSE <<>>)
                          \o parsed(Tail(l))
         IN  parsed(attrs)

\* lines 228, 230: the sums
RECURSIVE add_stats(_, _)
add_stats(d, kvs) ==
    IF kvs = <<>> THEN d
    ELSE add_stats(dict_add(d, kvs[1][1], kvs[1][2]), Tail(kvs))

\* lines 229, 231: one hit for every value added
stats_hits(intervention) == Len(parsed_stats(intervention))

\* a bug: the intervention count of a record starts anew with each debate
count_head_mut(acc, intervention, debate_id) ==
    LET lens == sentence_word_counts(intervention)
    IN  [acc EXCEPT
            !.interventions = IF debate_id \in acc.debates THEN @ + 1 ELSE 1,
            !.debates = @ \cup {debate_id},
            !.sentences = @ + Len(lens),
            !.words = @ + SumSeq(lens),
            !.sentence_lengths = @ \o lens,
            !.sentences_per_intervention = Append(@, Len(lens)),
            !.intervention_word_counts = Append(@, SumSeq(lens)),
            !.linguistic_stats = add_stats(@, parsed_stats(intervention)),
            !.linguistic_stats_count = @ + stats_hits(intervention)]

\* lines 191-233 on the speaker's or the party's record
count_head(acc, intervention, debate_id) ==
    LET lens == sentence_word_counts(intervention)
    IN  [acc EXCEPT
            !.interventions = @ + 1,
            !.debates = @ \cup {debate_id},
            !.sentences = @ + Len(lens),
            !.words = @ + SumSeq(lens),
            !.sentence_lengths = @ \o lens,
            !.sentences_per_intervention = Append(@, Len(lens)),
            !.intervention_word_counts = Append(@, SumSeq(lens)),
            !.linguistic_stats = add_stats(@, parsed_stats(intervention)),
            !.linguistic_stats_count = @ + stats_hits(intervention)]

\* line 236
emotions_attr(intervention) ==
    join(<<",">>, [k \in 1..Len(sentences_list(intervention)) |->
                      attr(sentences_list(intervention)[k].emotions, <<>>)])

RECURSIVE stripped_nonempty(_)
stripped_nonempty(parts) ==
    IF parts = <<>> THEN <<>>
    ELSE (IF strip(parts[1]) # <<>> THEN <<strip(parts[1])>> ELSE <<>>)
             \o stripped_nonempty(Tail(parts))

\* line 244: the emotions of the intervention, one per occurrence
emotion_list(intervention) ==
    IF emotions_attr(intervention) # <<>>
    THEN stripped_nonempty(split_comma(emotions_attr(intervention), 1, <<>>))
    ELSE <<>>

\* lines 238-249
intervention_emotions(intervention) == count_all(<<>>, emotion_list(intervention))

\* lines 240-248 on one record
count_emotions(acc, intervention, debate_id) ==
    IF emotions_attr(intervention) # <<>>
    THEN [acc EXCEPT
            !.emotions = count_all(@, emotion_list(intervention)),
            !.emotions_by_debate =
                dict_set(@, debate_id,
                         count_all(dict_get(@, debate_id, <<>>),
                                   emotion_list(intervention)))]
    ELSE acc

\* lines 252-254 on one record
store_emotions(acc, intervention, debate_id) ==
    IF Truthy(intervention.id)
    THEN [acc EXCEPT
            !.interventions_emotions =
                dict_set(@, debate_id,
                         dict_set(dict_get(@, debate_id, <<>>), intervention.id[1],
                                  intervention_emotions(intervention)))]
    ELSE acc

\* line 257
intervention_topic(intervention) == attr(intervention.topic, "")

\* lines 267, 276: full_text += " " + full_intervention_text
topic_text(old, text) == old \o <<" ">> \o text

\* lines 258-276 on one record
count_topic(acc, intervention, debate_id) ==
    LET topic == intervention_topic(intervention)
    IN  IF Truthy(intervention.id) /\ topic # ""
        THEN LET seed == dict_get(acc.topics, topic,
                                  [count |-> 0, debate_id |-> debate_id,
                                   intervention |-> intervention.id[1],
                                   full_text |-> <<>>])
             IN  [acc EXCEPT
                    !.topics =
                        dict_set(@, topic,
                                 [seed EXCEPT
                                    !.count = @ + 1,
                                    !.full_text =
                                        topic_text(@, full_intervention_text(intervention))])]
        ELSE acc

\* a bug: only the moderator is left out
excluded_mut(speaker_name) == speaker_name = <<"MODERADOR">>

\* lines 287, 299: speaker_name in ["MODERADOR", "DECLARACIONES"]
excluded(speaker_name) == speaker_name \in {<<"MODERADOR">>, <<"DECLARACIONES">>}

\* lines 286, 298, 310: the text of a child, stripped, "" without text
child_text(t) == IF Truthy(t) THEN strip(t[1]) ELSE <<>>

\* lines 285-289 and 297-301: the tuples of the claims or proposals of an
\* intervention, children the texts of the node's children
RECURSIVE formatted_items(_, _, _, _)
formatted_items(children, intervention, speaker_name, debate_id) ==
    IF children = <<>> THEN <<>>
    ELSE (IF child_text(children[1]) # <<>> /\ Truthy(intervention.id)
                /\ ~excluded(speaker_name)
          THEN <<[text |-> speaker_name \o <<":", " ">> \o child_text(children[1]),
                  debate_id |-> debate_id,
                  intervention |-> intervention.id,
                  full_text |-> full_intervention_text(intervention),
                  speaker_name |-> speaker_name]>>
          ELSE <<>>)
         \o formatted_items(Tail(children), intervention, speaker_name, debate_id)

\* str(fallacy.get("category"))
category_text(c) == IF c = None THEN "None" ELSE c[1]

\* lines 309-312
RECURSIVE formatted_fallacies(_, _, _, _)
formatted_fallacies(children, intervention, speaker_name, debate_id) ==
    IF children = <<>> THEN <<>>
    ELSE <<[text |-> speaker_name
                        \o <<" ", "(", category_text(children[1].category), ")", ":", " ">>
                        \o child_text(children[1].text),
            debate_id |-> debate_id,
            intervention |-> intervention.id,
            full_text |-> full_intervention_text(intervention),
            speaker_name |-> speaker_name]>>
         \o formatted_fallacies(Tail(children), intervention, speaker_name, debate_id)

\* lines 279-312: the children of a node, none when the node is missing
children_of(node) == attr(node, <<>>)

claims_texts_of(intervention, speaker_name, debate_id) ==
    formatted_items(children_of(intervention.claims), intervention, speaker_name, debate_id)

proposals_texts_of(intervention, speaker_name, debate_id) ==
    formatted_items(children_of(intervention.proposals), intervention, speaker_name, debate_id)

fallacies_texts_of(intervention, speaker_name, debate_id) ==
    formatted_fallacies(children_of(intervention.fallacies), intervention, speaker_name, debate_id)

\* lines 314-322
mentions_data(intervention) ==
    [k \in 1..Len(children_of(intervention.mentions)) |->
        [id |-> attr(children_of(intervention.mentions)[k].id, <<>>),
         type |-> attr(children_of(intervention.mentions)[k].type, ""),
         text |-> attr(children_of(intervention.mentions)[k].text, "")]]

\* lines 325-327 on one record
store_mentions(acc, intervention) ==
    IF Truthy(intervention.id)
    THEN [acc EXCEPT
            !.intervention_mentions =
                Some(dict_set(attr(@, <<>>), intervention.id[1], mentions_data(intervention)))]
    ELSE acc

\* a bug: a text already in the map keeps its origin
put_texts_first(d, items) ==
    LET RECURSIVE put(_, _)
        put(m, l) ==
            IF l = <<>> THEN m
            ELSE put(IF l[1].text \in DOMAIN m THEN m
                     ELSE dict_set(m, l[1].text,
                                   <<l[1].debate_id, l[1].intervention, l[1].full_text>>),
                     Tail(l))
    IN  put(d, items)

\* lines 340-351: d[formatted] = (d_id, i_id, full_text) for every tuple
put_texts(d, items) ==
    LET RECURSIVE put(_, _)
        put(m, l) ==
            IF l = <<>> THEN m
            ELSE put(dict_set(m, l[1].text,
                              <<l[1].debate_id, l[1].intervention, l[1].full_text>>),
                     Tail(l))
    IN  put(d, items)

\* lines 331-351 on one record
count_texts(acc, intervention, speaker_name, debate_id) ==
    [acc EXCEPT
        !.claims = @ + Len(children_of(intervention.claims)),
        !.proposals = @ + Len(children_of(intervention.proposals)),
        !.fallacies = @ + Len(children_of(intervention.fallacies)),
        !.claims_texts = put_texts(@, claims_texts_of(intervention, speaker_name, debate_id)),
        !.proposals_texts =
            put_texts(@, proposals_texts_of(intervention, speaker_name, debate_id)),
        !.fallacies_texts =
            put_texts(@, fallacies_texts_of(intervention, speaker_name, debate_id))]

\* lines 236-351 on one record
count_tail(acc, intervention, speaker_name, debate_id) ==
    count_texts(
        store_mentions(
            count_topic(
                store_emotions(count_emotions(acc, intervention, debate_id),
                               intervention, debate_id),
                intervention, debate_id),
            intervention),
        intervention, speaker_name, debate_id)

\* a bug: claims_node.findall is called without the test of line 282
raises_mut(intervention) == intervention.sentences = None \/ intervention.claims = None

\* line 236 raises AttributeError when the intervention has no sentences node
raises(intervention) == intervention.sentences = None

\* lines 139-233, and 236-351 unless line 236 raises, on speaker_metrics
speaker_metrics_after(sm, intervention, mapping, debate_id) ==
    LET pid == intervention.participant_id
        key == speaker_key_of(mapping, pid)
        old == dict_get(sm, key, new_speaker(key, party_of(mapping, pid)))
        head == count_head(old, intervention, debate_id)
    IN  dict_set(sm, key,
                 IF raises(intervention) THEN head
                 ELSE count_tail(head, intervention, speaker_name_of(mapping, pid), debate_id))

\* the same on party_metrics, with line 189
party_metrics_after(pm, intervention, mapping, debate_id) ==
    LET pid == intervention.participant_id
        key == party_key_of(mapping, pid)
        old == dict_get(pm, key, new_party)
        head == count_head([old EXCEPT !.participants = @ \cup {speaker_key_of(mapping, pid)}],
                           intervention, debate_id)
    IN  dict_set(pm, key,
                 IF raises(intervention) THEN head
                 ELSE count_tail(head, intervention, speaker_name_of(mapping, pid), debate_id))

\* lines 354-370: what process_intervention returns
intervention_info(intervention, mapping, debate_id) ==
    LET pid == intervention.participant_id
        name == speaker_name_of(mapping, pid)
    IN  [intervention_id |-> intervention.id,
         speaker_key |-> speaker_key_of(mapping, pid),
         party_key |-> party_key_of(mapping, pid),
         full_intervention_text |-> full_intervention_text(intervention),
         intervention_sentence_count |-> Len(sentences_list(intervention)),
         intervention_word_count |-> SumSeq(sentence_word_counts(intervention)),
         intervention_emotions |-> intervention_emotions(intervention),
         intervention_topic |-> intervention_topic(intervention),
         num_claims |-> Len(children_of(intervention.claims)),
         num_proposals |-> Len(children_of(intervention.proposals)),
         num_fallacies |-> Len(children_of(intervention.fallacies)),
         claims_texts |-> claims_texts_of(intervention, name, debate_id),
         proposals_texts |-> proposals_texts_of(intervention, name, debate_id),
         fallacies_texts |-> fallacies_texts_of(intervention, name, debate_id),
         mentions |-> mentions_data(intervention)]

\* line 389: the word counts of the sentences that have a text
RECURSIVE text_lengths(_)
text_lengths(ss) ==
    IF ss = <<>> THEN <<>>
    ELSE (IF Truthy(ss[1].text) THEN <<num_words(ss[1].text[1])>> ELSE <<>>)
             \o text_lengths(Tail(ss))

\* lines 396-397, 474-475: d[emo] += count for the items of a dict
add_counts(d, counts) ==
    [k \in (DOMAIN d) \cup (DOMAIN counts) |->
        dict_get(d, k, 0) + dict_get(counts, k, 0)]

\* a bug: the global word count is fed the sentence count
global_metrics_after_mut(gm, intervention, info) ==
    [gm EXCEPT
        !.interventions = @ + 1,
        !.sentences = @ + info.intervention_sentence_count,
        !.words = @ + info.intervention_sentence_count,
        !.sentence_lengths = @ \o text_lengths(sentences_list(intervention)),
        !.sentences_per_intervention = Append(@, info.intervention_sentence_count),
        !.intervention_word_counts = Append(@, info.intervention_word_count),
        !.intervention_topics = dict_add(@, info.intervention_topic, 1),
        !.claims = @ + info.num_claims,
        !.proposals = @ + info.num_proposals,
        !.fallacies = @ + info.num_fallacies,
        !.emotions = add_counts(@, info.intervention_emotions)]

\* lines 386-397
global_metrics_after(gm, intervention, info) ==
    [gm EXCEPT
        !.interventions = @ + 1,
        !.sentences = @ + info.intervention_sentence_count,
        !.words = @ + info.intervention_word_count,
        !.sentence_lengths = @ \o text_lengths(sentences_list(intervention)),
        !.sentences_per_intervention = Append(@, info.intervention_sentence_count),
        !.intervention_word_counts = Append(@, info.intervention_word_count),
        !.intervention_topics = dict_add(@, info.intervention_topic, 1),
        !.claims = @ + info.num_claims,
        !.proposals = @ + info.num_proposals,
        !.fallacies = @ + info.num_fallacies,
        !.emotions = add_counts(@, info.intervention_emotions)]

\* lines 456-466: local_topics_mapping after the infos
RECURSIVE local_topics_mapping(_, _)
local_topics_mapping(infos, debate_id) ==
    IF infos = <<>> THEN <<>>
    ELSE LET before == local_topics_mapping(SubSeq(infos, 1, Len(infos) - 1), debate_id)
             info == infos[Len(infos)]
             topic == info.intervention_topic
             entry == dict_get(before, topic,
                               [count |-> 0, intervention |-> None, full_text |-> <<>>,
                                debate_id |-> debate_id, speaker |-> <<>>])
         IN  dict_set(before, topic,
                 IF entry.intervention = None
                 THEN [count |-> entry.count + 1,
                       intervention |-> info.intervention_id,
                       full_text |-> info.full_intervention_text,
                       debate_id |-> debate_id,
                       speaker |-> info.speaker_key]
                 ELSE [entry EXCEPT
                          !.count = @ + 1,
                          !.full_text = @ \o <<" ">> \o info.full_intervention_text,
                          !.speaker = @ \o <<",">> \o info.speaker_key])

\* lines 467-472: d[text] = (d_id, i_id, full_text, speaker_name)
RECURSIVE put_local(_, _)
put_local(d, items) ==
    IF items = <<>> THEN d
    ELSE put_local(dict_set(d, items[1].text,
                            <<items[1].debate_id, items[1].intervention,
                              items[1].full_text, items[1].speaker_name>>),
                   Tail(items))

RECURSIVE local_claims_mapping(_)
local_claims_mapping(infos) ==
    IF infos = <<>> THEN <<>>
    ELSE put_local(local_claims_mapping(SubSeq(infos, 1, Len(infos) - 1)),
                   infos[Len(infos)].claims_texts)

RECURSIVE local_proposals_mapping(_)
local_proposals_mapping(infos) ==
    IF infos = <<>> THEN <<>>
    ELSE put_local(local_proposals_mapping(SubSeq(infos, 1, Len(infos) - 1)),
                   infos[Len(infos)].proposals_texts)

RECURSIVE local_fallacies_mapping(_)
local_fallacies_mapping(infos) ==
    IF infos = <<>> THEN <<>>
    ELSE put_local(local_fallacies_mapping(SubSeq(infos, 1, Len(infos) - 1)),
                   infos[Len(infos)].fallacies_texts)

\* line 445
RECURSIVE local_interventions_emotions(_)
local_interventions_emotions(infos) ==
    IF infos = <<>> THEN <<>>
    ELSE LET before == local_interventions_emotions(SubSeq(infos, 1, Len(infos) - 1))
             info == infos[Len(infos)]
         IN  IF Truthy(info.intervention_id)
             THEN dict_set(before, info.intervention_id[1], info.intervention_emotions)
             ELSE before

\* lines 451-454
RECURSIVE local_intervention_mentions(_)
local_intervention_mentions(infos) ==
    IF infos = <<>> THEN <<>>
    ELSE LET before == local_intervention_mentions(SubSeq(infos, 1, Len(infos) - 1))
             info == infos[Len(infos)]
         IN  IF Truthy(info.intervention_id)
             THEN dict_set(before, info.intervention_id[1], info.mentions)
             ELSE before

\* lines 446, 474-475
RECURSIVE local_emotions(_)
local_emotions(infos) ==
    IF infos = <<>> THEN <<>>
    ELSE add_counts(local_emotions(Tail(infos)), infos[1].intervention_emotions)

\* lines 436-449, 478-499: the entry of debates_info
debate_info(file, debate_id, blocks_info, infos) ==
    [debate_id |-> debate_id,
     date |-> attr(file.date, debate_id),
     election_date |-> attr(file.election_date, ""),
     media |-> attr(file.media, ""),
     blocks |-> Len(file.blocks),
     blocks_info |-> blocks_info,
     interventions |-> Len(infos),
     sentences |-> SumSeq([k \in 1..Len(infos) |-> infos[k].intervention_sentence_count]),
     words |-> SumSeq([k \in 1..Len(infos) |-> infos[k].intervention_word_count]),
     speakers |-> {infos[k].speaker_key : k \in 1..Len(infos)},
     topics |-> local_topics_mapping(infos, debate_id),
     claims_texts |-> local_claims_mapping(infos),
     proposals_texts |-> local_proposals_mapping(infos),
     fallacies_texts |-> local_fallacies_mapping(infos),
     num_claims |-> SumSeq([k \in 1..Len(infos) |-> infos[k].num_claims]),
     num_proposals |-> SumSeq([k \in 1..Len(infos) |-> infos[k].num_proposals]),
     num_fallacies |-> SumSeq([k \in 1..Len(infos) |-> infos[k].num_fallacies]),
     emotions |-> local_emotions(infos),
     intervention_emotions |-> local_interventions_emotions(infos),
     intervention_mentions |-> local_intervention_mentions(infos)]

(***************************************************************************)
(* main (2366-2399) and process_xml over the files of the directory.       *)
(*   agg_input        the XML files in the order of the walk; a file is    *)
(*                    [parses, basename, date, election_date, media,       *)
(*                    participants, blocks], a block [topic, interventions]*)
(*                    and an intervention [id, participant_id, topic,      *)
(*                    sentences, stats, claims, proposals, fallacies,      *)
(*                    mentions]                                            *)
(*   apc              "idle" (between two files), "blocks" (the loop of    *)
(*                    line 428), "interventions" (the loop of line 383),   *)
(*                    "raised"                                             *)
(*   file_no, block_no, int_no    the files, blocks and interventions taken*)
(*   local            the locals of process_xml and of process_block       *)
(*   processed        history: the interventions process_intervention has  *)
(*                    returned from, with the debate id and the keys       *)
(***************************************************************************)
\* lines 2369-2385
new_global_metrics ==
    [debates |-> 0, blocks |-> 0, interventions |-> 0, sentences |-> 0, words |-> 0,
     claims |-> 0, proposals |-> 0, fallacies |-> 0,
     sentence_lengths |-> <<>>, sentences_per_intervention |-> <<>>,
     intervention_word_counts |-> <<>>,
     block_topics |-> <<>>, intervention_topics |-> <<>>, emotions |-> <<>>,
     debates_info |-> <<>>]

NoLocal ==
    [debate_id |-> "", participants_mapping |-> <<>>, blocks_info |-> <<>>,
     interventions_info |-> <<>>, block_interventions_info |-> <<>>]

AggIdle ==
    /\ apc = "idle"
    /\ file_no = 0
    /\ block_no = 0
    /\ int_no = 0
    /\ global_metrics = new_global_metrics
    /\ speaker_metrics = <<>>
    /\ party_metrics = <<>>
    /\ local = NoLocal
    /\ processed = <<>>

\* lines 2394-2399 and 407-427: the next file is parsed; one that does not
\* parse is left (process_xml returns None)
OpenFile ==
    /\ apc = "idle"
    /\ file_no < Len(agg_input)
    /\ file_no' = file_no + 1
    /\ LET file == agg_input[file_no + 1]
       IN  IF file.parses
           THEN /\ global_metrics' =
                       [global_metrics EXCEPT !.debates = @ + 1,
                                              !.blocks = @ + Len(file.blocks)]
                /\ local' = [NoLocal EXCEPT
                                !.debate_id = attr(file.date, file.basename),
                                !.participants_mapping =
                                    parse_participants(attr(file.participants, <<>>))]
                /\ apc' = "blocks"
           ELSE UNCHANGED <<global_metrics, local, apc>>
    /\ block_no' = 0
    /\ int_no' = 0
    /\ UNCHANGED <<agg_input, speaker_metrics, party_metrics, processed>>
    /\ UNCHANGED <<call, xmlVars, emoVars, mainVars, rateVars>>

\* lines 428-431 and 376-382: a block with no interventions node is over at
\* once (lines 379, 432-433)
EnterBlock ==
    /\ apc = "blocks"
    /\ block_no < Len(agg_input[file_no].blocks)
    /\ LET block == agg_input[file_no].blocks[block_no + 1]
           block_topic == attr(block.topic, "No Topic")
       IN  /\ global_metrics' =
                  [global_metrics EXCEPT !.block_topics = dict_add(@, block_topic, 1)]
           /\ IF block.interventions = None
              THEN /\ local' = [local EXCEPT
                                   !.blocks_info =
                                       Append(@, [topic |-> block_topic,
                                                  intervention_count |-> 0])]
                   /\ block_no' = block_no + 1
                   /\ apc' = "blocks"
              ELSE /\ local' = [local EXCEPT !.block_interventions_info = <<>>]
                   /\ block_no' = block_no
                   /\ apc' = "interventions"
    /\ int_no' = 0
    /\ UNCHANGED <<agg_input, file_no, speaker_metrics, party_metrics, processed>>
    /\ UNCHANGED <<call, xmlVars, emoVars, mainVars, rateVars>>

\* lines 383-397 with process_intervention (130-370)
ProcessIntervention ==
    /\ apc = "interventions"
    /\ LET interventions == agg_input[file_no].blocks[block_no + 1].interventions[1]
       IN  /\ int_no < Len(interventions)
           /\ LET intervention == interventions[int_no + 1]
                  mapping == local.participants_mapping
                  info == intervention_info(intervention, mapping, local.debate_id)
              IN  /\ speaker_metrics' =
                         speaker_metrics_after(speaker_metrics, intervention, mapping,
                                               local.debate_id)
                  /\ party_metrics' =
                         party_metrics_after(party_metrics, intervention, mapping,
                                             local.debate_id)
                  /\ IF raises(intervention)
                     THEN /\ apc' = "raised"
                          /\ UNCHANGED <<global_metrics, local, int_no, processed>>
                     ELSE /\ apc' = "interventions"
                          /\ global_metrics' =
                                 global_metrics_after(global_metrics, intervention, info)
                          /\ local' = [local EXCEPT
                                          !.block_interventions_info = Append(@, info)]
                          /\ int_no' = int_no + 1
                          /\ processed' =
                                 Append(processed,
                                        [debate_id |-> local.debate_id,
                                         file |-> file_no,
                                         intervention |-> intervention,
                                         speaker_name |->
                                             speaker_name_of(mapping,
                                                             intervention.participant_id),
                                         speaker_key |-> info.speaker_key,
                                         party_key |-> info.party_key,
                                         info |-> info])
    /\ UNCHANGED <<agg_input, file_no, block_no>>
    /\ UNCHANGED <<call, xmlVars, emoVars, mainVars, rateVars>>

\* lines 399 and 432-433
LeaveBlock ==
    /\ apc = "interventions"
    /\ LET block == agg_input[file_no].blocks[block_no + 1]
       IN  /\ int_no = Len(block.interventions[1])
           /\ local' = [local EXCEPT
                           !.blocks_info =
                               Append(@, [topic |-> attr(block.topic, "No Topic"),
                                          intervention_count |->
                                              Len(local.block_interventions_info)]),
                           !.interventions_info = @ \o local.block_interventions_info]
    /\ block_no' = block_no + 1
    /\ apc' = "blocks"
    /\ UNCHANGED <<agg_input, file_no, int_no, global_metrics, speaker_metrics,
                   party_metrics, processed>>
    /\ UNCHANGED <<call, xmlVars, emoVars, mainVars, rateVars>>

\* lines 436-500
CloseFile ==
    /\ apc = "blocks"
    /\ block_no = Len(agg_input[file_no].blocks)
    /\ global_metrics' =
           [global_metrics EXCEPT
               !.debates_info =
                   dict_set(@, local.debate_id,
                            debate_info(agg_input[file_no], local.debate_id,
                                        local.blocks_info, local.interventions_info))]
    /\ apc' = "idle"
    /\ UNCHANGED <<agg_input, file_no, block_no, int_no, speaker_metrics, party_metrics,
                   local, processed>>
    /\ UNCHANGED <<call, xmlVars, emoVars, mainVars, rateVars>>

(***************************************************************************)
(* generate_html_reports.py 372-500 and 2394-2399 as functions: the        *)
(* accumulators after a whole walk over a sequence of files.  A state of   *)
(* the walk is [sm, pm, gm, ok], ok FALSE once an exception has left       *)
(* process_intervention (nothing catches it, and the walk ends there).     *)
(***************************************************************************)
\* lines 383-397: the loop of process_block, infos what it has collected
RECURSIVE process_block(_, _, _, _)
process_block(st, interventions, mapping, debate_id) ==
    IF interventions = <<>> \/ ~st.ok THEN st
    ELSE LET intervention == interventions[1]
             info == intervention_info(intervention, mapping, debate_id)
             sm == speaker_metrics_after(st.sm, intervention, mapping, debate_id)
             pm == party_metrics_after(st.pm, intervention, mapping, debate_id)
         IN  process_block(
                 IF raises(intervention)
                 THEN [st EXCEPT !.sm = sm, !.pm = pm, !.ok = FALSE]
                 ELSE [st EXCEPT !.sm = sm, !.pm = pm,
                                 !.gm = global_metrics_after(@, intervention, info),
                                 !.infos = Append(@, info)],
                 Tail(interventions), mapping, debate_id)

\* lines 428-433: the loop of process_xml over the blocks
RECURSIVE blocks_loop(_, _, _, _)
blocks_loop(st, block_list, mapping, debate_id) ==
    IF block_list = <<>> \/ ~st.ok THEN st
    ELSE LET block == block_list[1]
             block_topic == attr(block.topic, "No Topic")
             entered == [sm |-> st.sm, pm |-> st.pm,
                         gm |-> [st.gm EXCEPT !.block_topics = dict_add(@, block_topic, 1)],
                         infos |-> <<>>, ok |-> TRUE]
             left == IF block.interventions = None THEN entered
                     ELSE process_block(entered, block.interventions[1], mapping, debate_id)
         IN  blocks_loop([sm |-> left.sm, pm |-> left.pm, gm |-> left.gm, ok |-> left.ok,
                          blocks_info |->
                              Append(st.blocks_info,
                                     [topic |-> block_topic,
                                      intervention_count |-> Len(left.infos)]),
                          infos |-> st.infos \o left.infos],
                         Tail(block_list), mapping, debate_id)

\* lines 401-500
process_xml(st, file) ==
    IF ~file.parses THEN st
    ELSE LET debate_id == attr(file.date, file.basename)
             mapping == parse_participants(attr(file.participants, <<>>))
             done == blocks_loop(
                         [sm |-> st.sm, pm |-> st.pm, ok |-> TRUE,
                          gm |-> [st.gm EXCEPT !.debates = @ + 1,
                                               !.blocks = @ + Len(file.blocks)],
                          blocks_info |-> <<>>, infos |-> <<>>],
                         file.blocks, mapping, debate_id)
         IN  [sm |-> done.sm, pm |-> done.pm, ok |-> done.ok,
              gm |-> IF done.ok
                     THEN [done.gm EXCEPT
                              !.debates_info =
                                  dict_set(@, debate_id,
                                           debate_info(file, debate_id, done.blocks_info,
                                                       done.infos))]
                     ELSE done.gm]

\* lines 2369-2399: the walk over the files, from the state st
RECURSIVE main(_, _)
main(st, files) ==
    IF files = <<>> \/ ~st.ok THEN st
    ELSE main(process_xml(st, files[1]), Tail(files))

(***************************************************************************)
(* The temporal-assignment functions applied to drawn inputs: a behaviour  *)
(* is one call.                                                            *)
(***************************************************************************)
EntityPayloads == {<<>>, <<<<"PER", "Ana">>>>, <<<<"ORG", "X">>, <<"PER", "Ana">>>>}
TextPayloads == {<<>>, <<"p">>, <<"q", "p">>}

SortedEntries(P) ==
    {L \in SeqsUpTo(Times \X P, MaxEntries) :
        \A i \in 1..(Len(L) - 1) : L[i][1] <= L[i + 1][1]}

NoCall == [fn |-> "none", time |-> 0, list |-> <<>>, ret |-> None]

InitAssign ==
    /\ call = NoCall /\ input = NoInput /\ XmlIdle /\ emo_input = NoEmoInput /\ EmoIdle
    /\ agg_input = <<>> /\ AggIdle
    /\ main_input = <<>> /\ MainIdle
    /\ RateIdle

CallAssignBlock ==
    /\ call = NoCall
    /\ \E L \in SortedIntervalLists, t \in QueryTimes :
        call' = [fn |-> "assign_block", time |-> t, list |-> L,
                 ret |-> assign_block(t, L)]
    /\ UNCHANGED <<xmlVars, emoVars, aggVars, mainVars, rateVars>>

CallAssignTopic ==
    /\ call = NoCall
    /\ \E L \in SortedIntervalLists, t \in QueryTimes :
        call' = [fn |-> "assign_topic", time |-> t, list |-> L,
                 ret |-> assign_topic(t, L)]
    /\ UNCHANGED <<xmlVars, emoVars, aggVars, mainVars, rateVars>>

CallAssignEntities ==
    /\ call = NoCall
    /\ \E L \in SortedEntries(EntityPayloads), t \in QueryTimes :
        call' = [fn |-> "assign_entities", time |-> t, list |-> L,
                 ret |-> assign_entities(t, L)]
    /\ UNCHANGED <<xmlVars, emoVars, aggVars, mainVars, rateVars>>

CallAssignProposals ==
    /\ call = NoCall
    /\ \E L \in SortedEntries(TextPayloads), t \in QueryTimes :
        call' = [fn |-> "assign_proposals", time |-> t, list |-> L,
                 ret |-> assign_proposals(t, L)]
    /\ UNCHANGED <<xmlVars, emoVars, aggVars, mainVars, rateVars>>

CallAssignFactChecking ==
    /\ call = NoCall
    /\ \E L \in SortedEntries(TextPayloads), t \in QueryTimes :
        call' = [fn |-> "assign_fact_checking", time |-> t, list |-> L,
                 ret |-> assign_fact_checking(t, L)]
    /\ UNCHANGED <<xmlVars, emoVars, aggVars, mainVars, rateVars>>

NextAssign ==
    \/ CallAssignBlock
    \/ CallAssignTopic
    \/ CallAssignEntities
    \/ CallAssignProposals
    \/ CallAssignFactChecking

SpecAssign == InitAssign /\ [][NextAssign]_vars

(***************************************************************************)
(* The inputs of generate_xml: one debate's files, drawn from four         *)
(* families, each varying the part of the input one step of the assembly   *)
(* reads and holding the rest at DefaultInput.                             *)
(***************************************************************************)
MaxBlockLines == 2      \* lines of the blocks file
MaxRows == 3            \* rows of the segments table
MaxMentionLines == 4    \* lines of the mentions file
MaxAnnotLines == 3      \* lines of the proposals file and of the claims file
MaxTextLen == 5         \* characters of a turn's text

\* "00:0<s>.000" and "00:00:0<s>.000000"
StampMS(s) == [h |-> None, m |-> 0, s |-> s, f |-> <<0, 0, 0>>]
StampHMS(s) == [h |-> Some(0), m |-> 0, s |-> s, f |-> <<0, 0, 0, 0, 0, 0>>]

TimeLine(t) == [tag |-> "time", tiempo |-> t]
Row(t, texto) ==
    [fecha |-> "1993-05-24", inicio |-> t, nombre |-> "Ana",
     partido_nombre |-> "PP", texto |-> texto, stats |-> "row stats"]

DefaultInput ==
    [segmentos_csv |-> <<Row(StampMS(0), <<"a">>)>>,
     speakers_csv |-> <<[speaker_name |-> "Ana", stats |-> "speaker stats"]>>,
     blocks_txt |-> <<[tag |-> "BLOQUE", titulo |-> "Economy", tiempo |-> StampMS(0)]>>,
     topics_txt |-> <<[tag |-> "TEMA", titulo |-> "Pensions", tiempo |-> StampMS(0)]>>,
     entidades_txt |-> <<TimeLine(StampMS(0)), [tag |-> "MENCION", item |-> <<"PER", "Ana">>]>>,
     proposals_txt |-> <<TimeLine(StampMS(0)), [tag |-> "PROPUESTA", item |-> "p"]>>,
     fact_checking_txt |-> <<TimeLine(StampMS(0))>>]

BlockLines ==
    {[tag |-> "BLOQUE", titulo |-> t, tiempo |-> StampMS(s)] :
        t \in Titles, s \in {0, 1}} \cup {[tag |-> "other"]}

BlockInputs ==
    {[DefaultInput EXCEPT !.blocks_txt = b, !.segmentos_csv = rows] :
        b \in SeqsUpTo(BlockLines, MaxBlockLines),
        rows \in SeqsUpTo({Row(StampMS(0), <<"a">>), Row(StampHMS(1), <<"a">>)}, MaxRows)}

MentionLines ==
    {TimeLine(StampMS(0)), TimeLine(StampHMS(1))}
        \cup {[tag |-> "MENCION", item |-> e] :
                e \in {<<"PER", "Ana">>, <<"ORG", "X">>, <<"PER", "X">>}}

MentionInputs ==
    {[DefaultInput EXCEPT !.entidades_txt = e] :
        e \in SeqsUpTo(MentionLines, MaxMentionLines)}

AnnotLines(tag) ==
    {TimeLine(StampMS(0)), TimeLine(StampMS(1))}
        \cup {[tag |-> tag, item |-> x] : x \in {"p", "q"}}

AnnotInputs ==
    {[DefaultInput EXCEPT !.proposals_txt = p] :
        p \in SeqsUpTo(AnnotLines("PROPUESTA"), MaxAnnotLines)}
    \cup {[DefaultInput EXCEPT !.fact_checking_txt = c] :
        c \in SeqsUpTo(AnnotLines("REVISABLE"), MaxAnnotLines)}

TextInputs ==
    {[DefaultInput EXCEPT !.segmentos_csv = <<Row(StampMS(0), texto)>>] :
        texto \in SeqsUpTo({"a", ".", " "}, MaxTextLen)}

\* "01:02.500", "00:01:02.500000", "01:02.501" and "00:01:02.501000"
FormatStamps ==
    {[h |-> None, m |-> 1, s |-> 2, f |-> <<5, 0, 0>>],
     [h |-> Some(0), m |-> 1, s |-> 2, f |-> <<5, 0, 0, 0, 0, 0>>],
     [h |-> None, m |-> 1, s |-> 2, f |-> <<5, 0, 1>>],
     [h |-> Some(0), m |-> 1, s |-> 2, f |-> <<5, 0, 1, 0, 0, 0>>]}

\* a turn stamped in one format and annotations stamped in one format
FormatInputs ==
    {[DefaultInput EXCEPT
         !.segmentos_csv = <<Row(a, <<"a">>)>>,
         !.entidades_txt = <<TimeLine(b), [tag |-> "MENCION", item |-> <<"PER", "Ana">>]>>,
         !.proposals_txt = <<TimeLine(b), [tag |-> "PROPUESTA", item |-> "p"]>>,
         !.fact_checking_txt = <<TimeLine(b), [tag |-> "REVISABLE", item |-> "q"]>>] :
        a \in FormatStamps, b \in FormatStamps}

MaxSpeakers == 3        \* rows of the speakers table

\* speakers tables with a name repeated, and turns of one or two speakers
SpeakerRows ==
    {[speaker_name |-> "Ana", stats |-> "speaker stats"],
     [speaker_name |-> "Ana", stats |-> "other stats"],
     [speaker_name |-> "Bea", stats |-> "speaker stats"]}

TurnOf(name) == [Row(StampMS(0), <<"a">>) EXCEPT !.nombre = name]

SpeakerInputs ==
    {[DefaultInput EXCEPT !.speakers_csv = sp, !.segmentos_csv = rows] :
        sp \in SeqsUpTo(SpeakerRows, MaxSpeakers),
        rows \in {<<TurnOf("Ana")>>, <<TurnOf("Bea")>>, <<TurnOf("Ana"), TurnOf("Bea")>>,
                  <<TurnOf("Bea"), TurnOf("Ana")>>, <<TurnOf("Bea"), TurnOf("Bea")>>}}

XmlInputs ==
    BlockInputs \cup MentionInputs \cup AnnotInputs \cup TextInputs \cup FormatInputs
        \cup SpeakerInputs

InitXml ==
    /\ call = NoCall /\ input \in XmlInputs /\ XmlIdle
    /\ emo_input = NoEmoInput /\ EmoIdle
    /\ agg_input = <<>> /\ AggIdle
    /\ main_input = <<>> /\ MainIdle
    /\ RateIdle

NextXml ==
    \/ Setup
    \/ ProcessRow
    \/ WriteXml

SpecXml == InitXml /\ [][NextXml]_vars

(***************************************************************************)
(* The inputs of the loop over fechas: per date, the required files that   *)
(* exist and their contents.                                               *)
(***************************************************************************)
MaxDebates == 3     \* dates of the list

Debate(files) == [present |-> RequiredFiles, files |-> files]

DebateMenu ==
    {Debate(DefaultInput),
     Debate([DefaultInput EXCEPT
                !.segmentos_csv = <<Row(StampMS(0), <<"a">>), Row(StampMS(1), <<"b">>)>>]),
     [Debate(DefaultInput) EXCEPT !.present = RequiredFiles \ {"claims"}],
     [present |-> {"blocks", "topics"}, files |-> NoInput],
     Debate([DefaultInput EXCEPT !.segmentos_csv = <<>>]),
     Debate([DefaultInput EXCEPT !.speakers_csv = <<>>]),
     Debate([DefaultInput EXCEPT !.speakers_csv = <<>>, !.blocks_txt = <<>>])}

InitMain ==
    /\ call = NoCall /\ input = NoInput /\ XmlIdle
    /\ emo_input = NoEmoInput /\ EmoIdle
    /\ agg_input = <<>> /\ AggIdle
    /\ main_input \in SeqsUpTo(DebateMenu, MaxDebates)
    /\ MainIdle
    /\ RateIdle

NextMain ==
    \/ NextFecha
    \/ Setup
    \/ ProcessRow
    \/ WriteXml
    \/ EndCall

SpecMain == InitMain /\ [][NextMain]_vars

(***************************************************************************)
(* The arguments of rate_limited_api_call: small limits and intervals in   *)
(* place of the defaults 10 and 69.                                        *)
(***************************************************************************)
MaxCalls == 2       \* the argument max_calls
MaxInterval == 3    \* the argument interval

InitRate ==
    /\ call = NoCall /\ input = NoInput /\ XmlIdle
    /\ emo_input = NoEmoInput /\ EmoIdle
    /\ agg_input = <<>> /\ AggIdle
    /\ main_input = <<>> /\ MainIdle
    /\ max_calls \in 1..MaxCalls
    /\ interval \in 1..MaxInterval
    /\ call_count = 0
    /\ start_time = 0
    /\ clock = 0
    /\ issued = <<>>

NextRate ==
    \/ RateLimitedApiCall
    \/ Tick

SpecRate == InitRate /\ [][NextRate]_vars

(***************************************************************************)
(* The inputs of generate_emotions: documents with the ids generate_xml    *)
(* writes (and with ids repeated, which a file may hold), and batches of   *)
(* response lines.                                                         *)
(***************************************************************************)
MaxInterventions == 2   \* intervention elements of a document
MaxSentences == 3       \* sentence elements of a document
MaxLines == 2           \* lines of a response

InterventionIds == {intervention_id_of(0), intervention_id_of(1)}
SentenceIds == {FmtId(<<"s">>, 0), FmtId(<<"s">>, 1)}

RECURSIVE SentenceCount(_)
SentenceCount(doc) ==
    IF doc = <<>> THEN 0 ELSE Len(doc[1].sentences) + SentenceCount(Tail(doc))

EmoSentences == {[id |-> s, text |-> Some(<<"a">>)] : s \in SentenceIds}

EmoDocs ==
    {doc \in SeqsUpTo([id : InterventionIds,
                       sentences : SeqsUpTo(EmoSentences, MaxSentences)],
                      MaxInterventions) :
        SentenceCount(doc) <= MaxSentences}

Record(i, s, t) == [kind |-> "element", int_id |-> Some(i), sent_id |-> Some(s), tags |-> Some(t)]

ResponseLines ==
    {[kind |-> "blank"], [kind |-> "garbage"]}
        \cup {Record(i, s, <<"joy">>) : i \in InterventionIds, s \in SentenceIds}
        \cup {Record(intervention_id_of(0), FmtId(<<"s">>, 0), <<"fear">>)}
        \cup {[Record(intervention_id_of(0), FmtId(<<"s">>, 0), <<"joy">>)
                   EXCEPT !.tags = None],
              [Record(intervention_id_of(0), FmtId(<<"s">>, 0), <<"joy">>)
                   EXCEPT !.int_id = None],
              [Record(intervention_id_of(0), FmtId(<<"s">>, 0), <<"joy">>)
                   EXCEPT !.sent_id = None]}

\* a document with a sentence without text, one of spaces only and one with
\* spaces around its text, and a repeated sentence id
FixedDoc ==
    <<[id |-> intervention_id_of(0),
       sentences |-> <<[id |-> FmtId(<<"s">>, 0), text |-> None],
                       [id |-> FmtId(<<"s">>, 1), text |-> Some(<<" ", "a", " ">>)],
                       [id |-> FmtId(<<"s">>, 1), text |-> Some(<<"a">>)]>>],
      [id |-> intervention_id_of(1),
       sentences |-> <<[id |-> FmtId(<<"s">>, 0), text |-> Some(<<"a">>)],
                       [id |-> FmtId(<<"s">>, 1), text |-> Some(<<>>)]>>]>>

FixedResponses ==
    {<<Record(intervention_id_of(0), FmtId(<<"s">>, 0), <<"joy">>)>>,
     <<Record(intervention_id_of(0), FmtId(<<"s">>, 0), <<"joy">>),
       Record(intervention_id_of(0), FmtId(<<"s">>, 0), <<"fear">>)>>}

\* a document of one sentence, and batches of records for it that lack an
\* attribute
OneSentenceDoc ==
    <<[id |-> intervention_id_of(0),
       sentences |-> <<[id |-> FmtId(<<"s">>, 0), text |-> Some(<<"a">>)]>>]>>

IncompleteRecords ==
    {[Record(intervention_id_of(0), FmtId(<<"s">>, 0), <<"joy">>) EXCEPT !.tags = None],
     [Record(intervention_id_of(0), FmtId(<<"s">>, 0), <<"joy">>) EXCEPT !.int_id = None],
     [Record(intervention_id_of(0), FmtId(<<"s">>, 0), <<"joy">>) EXCEPT !.sent_id = None]}

IncompleteInputs ==
    {[xml |-> OneSentenceDoc, response |-> r] :
        r \in SeqsUpTo(IncompleteRecords
                           \cup {Record(intervention_id_of(0), FmtId(<<"s">>, 0), <<"joy">>)},
                       MaxLines)}

EmoInputs ==
    {[xml |-> d, response |-> r] : d \in EmoDocs, r \in FixedResponses}
    \cup {[xml |-> FixedDoc, response |-> r] : r \in SeqsUpTo(ResponseLines, MaxLines)}
    \cup IncompleteInputs

InitEmotions ==
    /\ call = NoCall /\ input = NoInput /\ XmlIdle
    /\ emo_input \in EmoInputs
    /\ EmoIdle
    /\ agg_input = <<>> /\ AggIdle
    /\ main_input = <<>> /\ MainIdle
    /\ RateIdle

NextEmotions ==
    \/ BuildFiltered
    \/ MergeLine
    \/ WriteOutput
    \/ Reapply

SpecEmotions == InitEmotions /\ [][NextEmotions]_vars

(***************************************************************************)
(* The inputs of the aggregation: debate files as generate_xml and the     *)
(* later annotation steps write them, and files whose attributes or nodes  *)
(* are missing or repeated.                                                *)
(***************************************************************************)
MaxFiles == 2   \* files of the directory
MaxTurns == 2   \* interventions of a file built from CoreInterventions

Ana == FmtId(<<"p">>, 0)
Moderator == FmtId(<<"p">>, 1)
Statements == FmtId(<<"p">>, 2)
Bea == FmtId(<<"p">>, 3)

Participants(party_of_ana) ==
    <<[id |-> Some(Ana), full_name |-> Some(<<"Ana">>), party |-> Some(party_of_ana)],
      [id |-> Some(Moderator), full_name |-> Some(<<"MODERADOR">>), party |-> Some(<<>>)],
      [id |-> Some(Statements), full_name |-> Some(<<" ", "DECLARACIONES">>),
       party |-> None],
      [id |-> Some(Bea), full_name |-> Some(<<"Bea">>), party |-> Some(<<"A">>)]>>

\* an intervention as generate_xml writes it, with emotions and fallacies added
BaseIntervention ==
    [id |-> Some(intervention_id_of(0)),
     participant_id |-> Some(Ana),
     topic |-> Some("Economy"),
     sentences |->
         Some(<<[text |-> Some(<<"a", " ", "b">>),
                 emotions |-> Some(<<"joy", ",", " ", "fear">>)],
                [text |-> Some(<<"c">>), emotions |-> None]>>),
     stats |-> Some(<<<<"ttr", Some(1)>>, <<"stop-ratio", Some(2)>>>>),
     claims |-> Some(<<Some(<<"x">>)>>),
     proposals |-> Some(<<Some(<<"y">>)>>),
     fallacies |-> Some(<<[category |-> Some("ad hominem"), text |-> Some(<<"z">>)]>>),
     mentions |->
         Some(<<[id |-> Some(FmtId(<<"e">>, 0)), type |-> Some("PER"), text |-> Some("Ana")],
                [id |-> Some(FmtId(<<"e">>, 1)), type |-> Some("ORG"), text |-> Some("X")]>>)]

\* the base intervention of another turn: other texts, tags and mentions
OtherIntervention ==
    [BaseIntervention EXCEPT
        !.sentences = Some(<<[text |-> Some(<<"d">>), emotions |-> Some(<<"joy">>)]>>),
        !.stats = Some(<<<<"ttr", Some(3)>>>>),
        !.mentions =
            Some(<<[id |-> Some(FmtId(<<"e">>, 0)), type |-> Some("ORG"), text |-> Some("X")],
                   [id |-> Some(FmtId(<<"e">>, 1)), type |-> Some("ORG"), text |-> Some("X")]>>)]

CoreInterventions ==
    {[b EXCEPT !.id = i, !.participant_id = p] :
        b \in {BaseIntervention},
        i \in {Some(intervention_id_of(0)), Some(intervention_id_of(1))},
        p \in {Some(Ana), Some(Moderator), Some(Bea)}}
    \cup {[OtherIntervention EXCEPT !.id = i] :
            i \in {Some(intervention_id_of(0)), Some(intervention_id_of(1))}}

VariedInterventions ==
    CoreInterventions
    \cup {[BaseIntervention EXCEPT !.id = i] : i \in {None, Some(<<>>)}}
    \cup {[BaseIntervention EXCEPT !.participant_id = p] :
            p \in {None, Some(Statements), Some(FmtId(<<"p">>, 9))}}
    \cup {[BaseIntervention EXCEPT !.topic = t] : t \in {None, Some(""), Some("Health")}}
    \cup {[BaseIntervention EXCEPT !.sentences = s] :
            s \in {None, Some(<<>>),
                   Some(<<[text |-> None, emotions |-> Some(<<",", " ">>)]>>),
                   Some(<<[text |-> Some(<<" ", "a", " ">>),
                           emotions |-> Some(<<"joy", ",", "joy">>)]>>)}}
    \cup {[BaseIntervention EXCEPT !.stats = s] :
            s \in {None, Some(<<<<"ttr", None>>, <<"stop-ratio", Some(2)>>>>)}}
    \cup {[BaseIntervention EXCEPT !.claims = c] :
            c \in {None, Some(<<Some(<<"x">>), Some(<<" ", "x">>), None>>)}}
    \cup {[BaseIntervention EXCEPT !.proposals = None, !.mentions = None]}
    \cup {[BaseIntervention EXCEPT !.fallacies = f] :
            f \in {None, Some(<<[category |-> None, text |-> None]>>)}}

File(date, participants, block_list) ==
    [parses |-> TRUE, basename |-> "debate.xml", date |-> date,
     election_date |-> Some("2019-04-28"), media |-> Some("RTVE"),
     participants |-> participants, blocks |-> block_list]

OneBlock(interventions) == <<[topic |-> Some("Economy"), interventions |-> Some(interventions)]>>

FileMenu ==
    {File(Some("2019-04-22"), Some(Participants(<<"A">>)),
          <<[topic |-> Some("Economy"),
             interventions |->
                 Some(<<BaseIntervention,
                        [BaseIntervention EXCEPT !.id = Some(intervention_id_of(1)),
                                                 !.participant_id = Some(Bea)]>>)],
            [topic |-> None, interventions |-> None],
            [topic |-> Some("Health"),
             interventions |->
                 Some(<<[OtherIntervention EXCEPT !.id = Some(intervention_id_of(2))]>>)]>>),
     File(Some("2019-04-23"), Some(Participants(<<"B">>)), OneBlock(<<OtherIntervention>>)),
     File(Some("2019-04-22"), Some(Participants(<<"A">>)), OneBlock(<<OtherIntervention>>)),
     [File(None, None, OneBlock(<<BaseIntervention>>)) EXCEPT !.election_date = None],
     [File(None, None, <<>>) EXCEPT !.parses = FALSE]}

AggInputs ==
    SeqsUpTo(FileMenu, MaxFiles)
    \cup {<<File(Some("2019-04-22"), Some(Participants(<<"A">>)), OneBlock(l))>> :
            l \in SeqsUpTo(CoreInterventions, MaxTurns)}
    \cup {<<File(Some("2019-04-22"), Some(Participants(<<"A">>)), OneBlock(<<a, b>>))>> :
            a \in VariedInterventions, b \in VariedInterventions}

InitAggregate ==
    /\ call = NoCall /\ input = NoInput /\ XmlIdle
    /\ emo_input = NoEmoInput /\ EmoIdle
    /\ agg_input \in AggInputs
    /\ AggIdle
    /\ main_input = <<>> /\ MainIdle
    /\ RateIdle

NextAggregate ==
    \/ OpenFile
    \/ EnterBlock
    \/ ProcessIntervention
    \/ LeaveBlock
    \/ CloseFile

SpecAggregate == InitAggregate /\ [][NextAggregate]_vars

IsIntervalCall == call.fn \in {"assign_block", "assign_topic"}
IsExactCall == call.fn \in {"assign_entities", "assign_proposals", "assign_fact_checking"}

\* the indexes i whose half-open interval [start_i, start_{i+1}), the last one
\* unbounded above, holds t
Holding(L, t) ==
    {i \in 1..Len(L) : L[i][2] <= t /\ (i < Len(L) => t < L[i + 1][2])}

\* C1: on a non-empty sorted list and a query time at or after the first start,
\* assign_block and assign_topic return the label of the greatest index whose
\* start is <= the time (a time equal to a start resolves to that interval, a time
\* at or beyond the last start to the last label).
C1_GreatestStartAtOrBefore ==
    (IsIntervalCall /\ call.list # <<>> /\ call.time >= call.list[1][2]) =>
        \E i \in 1..Len(call.list) :
            /\ call.list[i][2] <= call.time
            /\ \A j \in (i + 1)..Len(call.list) : call.list[j][2] > call.time
            /\ call.ret = Some(call.list[i][1])

\* a time equal to an inner start: the interval that starts there is returned,
\* and its label differs from the previous interval's
C1_Witness ==
    /\ call.fn = "assign_block"
    /\ Len(call.list) = 3
    /\ call.list[1][2] < call.list[2][2]
    /\ call.list[2][2] < call.list[3][2]
    /\ call.time = call.list[2][2]
    /\ call.list[1][1] # call.list[2][1]
    /\ call.list[3][1] # call.list[2][1]
    /\ call.ret = Some(call.list[2][1])

\* C2: assign_block and assign_topic are total on non-empty sorted lists: every
\* query time, also one before the first start, yields a label of the list; at or
\* after the first start exactly one interval holds the time (no gap, no overlap)
\* and the label returned is that interval's; on the empty list the result is None.
C2_TotalNoGapNoOverlap ==
    IsIntervalCall =>
        /\ call.list = <<>> => call.ret = None
        /\ call.list # <<>> =>
            /\ call.ret # None
            /\ call.ret[1] \in {call.list[i][1] : i \in 1..Len(call.list)}
            /\ call.time >= call.list[1][2] =>
                /\ Cardinality(Holding(call.list, call.time)) = 1
                /\ \A i \in Holding(call.list, call.time) :
                       call.ret = Some(call.list[i][1])
            /\ call.time < call.list[1][2] =>
                call.ret = Some(call.list[Len(call.list)][1])

\* a time before the first start of a list of two labels resolves to the last one
C2_Witness ==
    /\ call.fn = "assign_topic"
    /\ Len(call.list) >= 2
    /\ call.time < call.list[1][2]
    /\ call.list[1][1] # call.list[Len(call.list)][1]
    /\ call.ret = Some(call.list[Len(call.list)][1])

Matches(L, t) == {i \in 1..Len(L) : L[i][1] = t}
Least(S) == CHOOSE i \in S : \A j \in S : i <= j

\* C3: an exact-timestamp lookup returns a stored payload iff an entry's time
\* equals the query time exactly; it is then the payload of the first such entry
\* in list order, and otherwise the default (the empty list for entities, None
\* for proposals and fact-checks).
C3_ExactMatchOnly ==
    IsExactCall =>
        LET m == Matches(call.list, call.time)
            stored == IF call.fn = "assign_entities"
                      THEN call.list[Least(m)][2]
                      ELSE Some(call.list[Least(m)][2])
            default == IF call.fn = "assign_entities" THEN <<>> ELSE None
        IN  /\ m # {} => call.ret = stored
            /\ m = {} => call.ret = default

\* two entries share the query time with different payloads: the first is returned
C3_Witness ==
    /\ call.fn = "assign_proposals"
    /\ Len(call.list) = 2
    /\ call.list[1][1] = call.time
    /\ call.list[2][1] = call.time
    /\ call.list[1][2] # call.list[2][2]
    /\ call.ret = Some(call.list[1][2])

(***************************************************************************)
(* The document assembler (SpecXml).                                       *)
(***************************************************************************)
PlacedRows == {i \in 1..Len(placed) : placed[i] # None}

\* the rows placed before row i
Rank(i) == Cardinality({j \in PlacedRows : j < i})

\* "i000", "i001", ... written out
IdText(n) == <<"i", "0", "0", DigitChars[n + 1]>>

\* the intervention elements of the tree that carry the id
ElementsWithId(id) ==
    {k \in 1..Len(Interventions(root)) : Interventions(root)[k].id = id}

\* the element of a placed row
ElementOf(i) ==
    Interventions(root)[CHOOSE k \in 1..Len(Interventions(root)) :
                            Interventions(root)[k].id = placed[i][1]]

TurnStart(i) == parse_time(df[i].inicio)

\* what the list holds at exactly time t: the payload of its first entry with
\* that time, <<>> when it has none
FoundAt(L, t) ==
    IF Matches(L, t) = {} THEN <<>> ELSE L[Least(Matches(L, t))][2]

\* C4: over the rows of one debate in row order, the rows placed into a block get
\* exactly the ids i000, i001, ... with no gap and no repeat, a dropped row takes
\* no id, and the document holds one intervention per placed row and none for a
\* dropped row.
C4_DenseIdsOverPlacedTurns ==
    /\ Len(placed) = row
    /\ \A i \in PlacedRows : placed[i] = Some(IdText(Rank(i)))
    /\ intervention_global_id = Cardinality(PlacedRows)
    /\ Len(Interventions(root)) = Cardinality(PlacedRows)
    /\ \A i \in PlacedRows : Cardinality(ElementsWithId(placed[i][1])) = 1

\* a row placed, the next dropped, the third placed with the next id
C4_Witness ==
    /\ pc = "written"
    /\ Len(placed) = 3
    /\ placed[1] = Some(<<"i", "0", "0", "0">>)
    /\ placed[2] = None
    /\ placed[3] = Some(<<"i", "0", "0", "1">>)
    /\ Len(Interventions(root)) = 2

\* the block elements that hold the intervention with the id
BlocksHolding(id) ==
    {b \in 1..Len(root.blocks) :
        \E c \in 1..Len(root.blocks[b].children) :
            \E k \in 1..Len(root.blocks[b].children[c]) :
                root.blocks[b].children[c][k].id = id}

\* C5: a row is dropped if and only if the block list is empty; when the list is
\* not empty every row is placed into exactly one block.
C5_DroppedIffNoBlocks ==
    \A i \in 1..Len(placed) :
        /\ placed[i] = None <=> blocks = <<>>
        /\ placed[i] # None => Cardinality(BlocksHolding(placed[i][1])) = 1

MentionsOf(el) == IF el.mentions = None THEN <<>> ELSE el.mentions[1]

\* C6: the mentions of an intervention are the distinct (type, text) pairs the
\* entity list holds at the turn's exact start time, ascending by (type, text)
\* and numbered e0, e1, ... in that order (none when the list holds nothing).
C6_MentionsDistinctSorted ==
    \A i \in PlacedRows :
        LET ms == MentionsOf(ElementOf(i))
            found == FoundAt(entities, TurnStart(i))
        IN  /\ {<<ms[k].type, ms[k].text>> : k \in 1..Len(ms)} = Range(found)
            /\ \A k \in 1..(Len(ms) - 1) :
                   PairLess(<<ms[k].type, ms[k].text>>,
                            <<ms[k + 1].type, ms[k + 1].text>>)
            /\ \A k \in 1..Len(ms) : ms[k].id = <<"e", DigitChars[k]>>
            /\ ElementOf(i).mentions = None <=> found = <<>>

\* the example of the spec: [(PER,Ana), (PER,Ana), (ORG,X)] at the turn's time
C6_Witness ==
    \E i \in PlacedRows :
        /\ FoundAt(entities, TurnStart(i))
               = <<<<"PER", "Ana">>, <<"PER", "Ana">>, <<"ORG", "X">>>>
        /\ ElementOf(i).mentions
               = Some(<<[id |-> <<"e", "0">>, type |-> "ORG", text |-> "X"],
                        [id |-> <<"e", "1">>, type |-> "PER", text |-> "Ana"]>>)

\* the sub-structure (None when absent) holds the items in order, numbered from 0
\* after the prefix
HoldsItems(sub, prefix, items) ==
    /\ sub # None
    /\ Len(sub[1]) = Len(items)
    /\ \A k \in 1..Len(items) :
           sub[1][k] = [id |-> Append(prefix, DigitChars[k]), text |-> items[k]]

\* C7: an intervention has a proposals (a claims) sub-structure if and only if
\* the exact-timestamp lookup at the turn's start time gives a non-empty list,
\* and the sub-structure then holds every item of that list, in order, numbered
\* from 0.
C7_SubStructureIffNonEmpty ==
    \A i \in PlacedRows :
        LET el == ElementOf(i)
            ps == FoundAt(proposals, TurnStart(i))
            cs == FoundAt(fact_checking, TurnStart(i))
        IN  /\ el.proposals # None <=> ps # <<>>
            /\ ps # <<>> => HoldsItems(el.proposals, <<"p", "r">>, ps)
            /\ el.claims # None <=> cs # <<>>
            /\ cs # <<>> => HoldsItems(el.claims, <<"r">>, cs)

\* two proposals at the turn's time, and an entry of the claims list at that time
\* with no item: the proposals are there, the claims are absent
C7_Witness ==
    \E i \in PlacedRows :
        /\ ElementOf(i).proposals
               = Some(<<[id |-> <<"p", "r", "0">>, text |-> "q"],
                        [id |-> <<"p", "r", "1">>, text |-> "p"]>>)
        /\ Matches(fact_checking, TurnStart(i)) # {}
        /\ ElementOf(i).claims = None

\* C8: the sentences of an intervention are the non-empty fragments of the text
\* split on ". ", trimmed, so no sentence of an assembled document has an empty
\* text (nor a space at either end), and the sentence ids of an intervention are
\* pairwise distinct.
C8_NoEmptySentence ==
    \A k \in 1..Len(Interventions(root)) :
        LET ss == Interventions(root)[k].sentences
        IN  /\ \A j \in 1..Len(ss) :
                   /\ ss[j].text # <<>>
                   /\ ss[j].text[1] # " "
                   /\ ss[j].text[Len(ss[j].text)] # " "
            /\ \A j1, j2 \in 1..Len(ss) : j1 # j2 => ss[j1].id # ss[j2].id

(***************************************************************************)
(* The merge-back of classifier records (SpecEmotions).                    *)
(***************************************************************************)
\* the places <<intervention, sentence>> of the tree whose intervention id and
\* sentence id are those of the record
Targets(doc, line) ==
    {p \in (1..Len(doc)) \X (1..MaxSentences + 1) :
        /\ p[2] <= Len(doc[p[1]].sentences)
        /\ AttrEquals(doc[p[1]].id, line.int_id)
        /\ AttrEquals(doc[p[1]].sentences[p[2]].id, line.sent_id)}

\* document order
Before(p, q) == p[1] < q[1] \/ (p[1] = q[1] /\ p[2] < q[2])

FirstTarget(doc, line) ==
    CHOOSE p \in Targets(doc, line) : \A q \in Targets(doc, line) : p = q \/ Before(p, q)

\* the tree with the tags set on the first target only
TaggedAtFirst(doc, line) ==
    IF Targets(doc, line) = {} THEN doc
    ELSE LET p == FirstTarget(doc, line)
         IN  [doc EXCEPT ![p[1]].sentences[p[2]].emotions = Some(line.tags)]

\* C9: for each record (int_id, sent_id, tags), exactly the first sentence in
\* document order whose intervention id is int_id and whose own id is sent_id
\* receives the tags, and no other sentence of the document is modified by the
\* record, also when ids are repeated.
C9_OnlyFirstMatchTagged ==
    [][(epc = "lines" /\ line_no < Len(lines) /\ lines[line_no + 1].kind = "element"
            /\ line_no' = line_no + 1)
        => filtered_root' = TaggedAtFirst(filtered_root, lines[line_no + 1])]_vars

\* C10: merge-back is idempotent: the batch applied a second time to the tree it
\* has tagged leaves the tree as the first application left it.
C10_MergeBackIdempotent ==
    (pass = 2 /\ epc = "written") => filtered_root = once

\* the second application is over, and the batch holds two records with
\* different tags for one sentence, which carries the later one
C10_Witness ==
    /\ pass = 2
    /\ epc = "written"
    /\ Len(lines) = 2
    /\ lines[1].kind = "element"
    /\ lines[2].kind = "element"
    /\ lines[1].tags # lines[2].tags
    /\ Targets(filtered_root, lines[1]) # {}
    /\ Targets(filtered_root, lines[1]) = Targets(filtered_root, lines[2])
    /\ LET p == FirstTarget(filtered_root, lines[2])
       IN  filtered_root[p[1]].sentences[p[2]].emotions = Some(lines[2].tags)

\* a step of the response loop over a line of the given kinds
LineStep(kinds) ==
    /\ epc = "lines"
    /\ line_no < Len(lines)
    /\ lines[line_no + 1].kind \in kinds
    /\ line_no' = line_no + 1

\* C11: a response line that is blank or does not parse as an element is
\* skipped: it changes no sentence, and the loop goes on to the later lines
\* of the batch (the run stays in the loop, and leaves it only with every
\* line processed).
C11_UnparsedLineSkipped ==
    /\ [][LineStep({"blank", "garbage"})
            => (filtered_root' = filtered_root /\ epc' = "lines" /\ lines' = lines)]_vars
    /\ [](epc \in {"written", "raised"} => line_no = Len(lines))

\* a blank or unparsable line has been passed and the record after it has
\* tagged a sentence
C11_Witness ==
    /\ epc = "lines"
    /\ pass = 1
    /\ line_no = 2
    /\ lines[1].kind \in {"blank", "garbage"}
    /\ lines[2].kind = "element"
    /\ Targets(filtered_root, lines[2]) # {}
    /\ LET p == FirstTarget(filtered_root, lines[2])
       IN  filtered_root[p[1]].sentences[p[2]].emotions = Some(lines[2].tags)

\* C12: a record for which no intervention has the int_id, or no sentence of an
\* intervention with the int_id has the sent_id, leaves the whole tree unchanged
\* and the run goes on without an error.
C12_UnmatchedRecordDropped ==
    [][(LineStep({"element"}) /\ Targets(filtered_root, lines[line_no + 1]) = {})
        => (filtered_root' = filtered_root /\ epc' = "lines")]_vars

\* a record whose int_id is that of an intervention holding sentences, none of
\* them with the sent_id, has been processed
C12_Witness ==
    /\ epc = "lines"
    /\ line_no >= 1
    /\ lines[line_no].kind = "element"
    /\ Targets(filtered_root, lines[line_no]) = {}
    /\ \E i \in 1..Len(filtered_root) :
            /\ AttrEquals(filtered_root[i].id, lines[line_no].int_id)
            /\ filtered_root[i].sentences # <<>>
            /\ lines[line_no].sent_id # None

(***************************************************************************)
(* The aggregation of debate files (SpecAggregate).                        *)
(***************************************************************************)
\* the sum of the values of a function
RECURSIVE SumFn(_)
SumFn(f) ==
    IF DOMAIN f = {} THEN 0
    ELSE LET x == CHOOSE x \in DOMAIN f : TRUE
         IN  f[x] + SumFn([y \in (DOMAIN f) \ {x} |-> f[y]])

\* process_xml has returned from every file taken
Aggregated == apc = "idle"

\* the places in processed of the interventions counted in a speaker's record,
\* in a party's record, and read from the file just closed
OfSpeaker(s) == {k \in 1..Len(processed) : processed[k].speaker_key = s}
OfParty(p) == {k \in 1..Len(processed) : processed[k].party_key = p}
OfLastFile == {k \in 1..Len(processed) : processed[k].file = file_no}

\* the records of the speaker scope and of the party scope, each with the
\* places of its interventions
Scopes ==
    {[acc |-> speaker_metrics[s], places |-> OfSpeaker(s)] : s \in DOMAIN speaker_metrics}
    \cup {[acc |-> party_metrics[p], places |-> OfParty(p)] : p \in DOMAIN party_metrics}

\* C13: after aggregating any sequence of debates, for every party the
\* intervention counts of the speaker records listed as its participants sum
\* to the party record's intervention count.
C13_PartySumsItsSpeakers ==
    Aggregated =>
        \A p \in DOMAIN party_metrics :
            SumFn([s \in party_metrics[p].participants |->
                      speaker_metrics[s].interventions])
                = party_metrics[p].interventions

\* C14: after aggregating any sequence of debate files, the per-debate
\* intervention counts stored in debates_info sum to the global total.
C14_DebatesSumToGlobal ==
    Aggregated =>
        SumFn([d \in DOMAIN global_metrics.debates_info |->
                  global_metrics.debates_info[d].interventions])
            = global_metrics.interventions

\* the kinds of annotation, with the node, the count and the map of each
Kinds == {"claims", "proposals", "fallacies"}

NodeOf(intervention, kind) ==
    CASE kind = "claims" -> intervention.claims
      [] kind = "proposals" -> intervention.proposals
      [] kind = "fallacies" -> intervention.fallacies

CountOf(acc, kind) ==
    CASE kind = "claims" -> acc.claims
      [] kind = "proposals" -> acc.proposals
      [] kind = "fallacies" -> acc.fallacies

TextsOf(acc, kind) ==
    CASE kind = "claims" -> acc.claims_texts
      [] kind = "proposals" -> acc.proposals_texts
      [] kind = "fallacies" -> acc.fallacies_texts

\* the formatted texts of an aggregated intervention
FormattedOf(entry, kind) ==
    CASE kind = "claims" -> {t.text : t \in Range(entry.info.claims_texts)}
      [] kind = "proposals" -> {t.text : t \in Range(entry.info.proposals_texts)}
      [] kind = "fallacies" -> {t.text : t \in Range(entry.info.fallacies_texts)}

\* the last of the places whose intervention holds the formatted text
LastWith(places, kind, text) ==
    CHOOSE k \in places :
        /\ text \in FormattedOf(processed[k], kind)
        /\ \A j \in places : text \in FormattedOf(processed[j], kind) => j <= k

\* C15: counts and dedup maps are independent: a speaker's count of a kind is
\* the number of elements of that kind in all the speaker's interventions (a
\* text occurring in k of them counts k times), while the dedup map holds one
\* entry for each formatted text, its origin the (debate_id, intervention_id)
\* of the last processed intervention holding the text.
C15_CountAndDedupIndependent ==
    \A s \in DOMAIN speaker_metrics : \A kind \in Kinds :
        LET acc == speaker_metrics[s]
            places == OfSpeaker(s)
            texts == UNION {FormattedOf(processed[k], kind) : k \in places}
        IN  /\ CountOf(acc, kind) =
                   SumFn([k \in places |->
                             Len(children_of(NodeOf(processed[k].intervention, kind)))])
            /\ DOMAIN TextsOf(acc, kind) = texts
            /\ \A t \in texts :
                   LET last == processed[LastWith(places, kind, t)]
                   IN  /\ TextsOf(acc, kind)[t][1] = last.debate_id
                       /\ TextsOf(acc, kind)[t][2] = last.intervention.id

\* one formatted claim has occurred in two interventions of a speaker, in
\* different debates: the count is 2, the map holds the one text, and its
\* origin is the second intervention
C15_Witness ==
    /\ Aggregated
    /\ \E s \in DOMAIN speaker_metrics :
        \E i \in OfSpeaker(s), j \in OfSpeaker(s) :
            /\ i < j
            /\ speaker_metrics[s].claims = 2
            /\ processed[i].debate_id # processed[j].debate_id
            /\ FormattedOf(processed[i], "claims") # {}
            /\ FormattedOf(processed[i], "claims") = FormattedOf(processed[j], "claims")
            /\ DOMAIN speaker_metrics[s].claims_texts = FormattedOf(processed[j], "claims")
            /\ \A t \in FormattedOf(processed[j], "claims") :
                   /\ speaker_metrics[s].claims_texts[t][1] = processed[j].debate_id
                   /\ speaker_metrics[s].claims_texts[t][2] = processed[j].intervention.id

\* the claims and proposals maps of the three scopes
ClaimAndProposalMaps ==
    {speaker_metrics[s].claims_texts : s \in DOMAIN speaker_metrics}
    \cup {speaker_metrics[s].proposals_texts : s \in DOMAIN speaker_metrics}
    \cup {party_metrics[p].claims_texts : p \in DOMAIN party_metrics}
    \cup {party_metrics[p].proposals_texts : p \in DOMAIN party_metrics}
    \cup {global_metrics.debates_info[d].claims_texts : d \in DOMAIN global_metrics.debates_info}
    \cup {global_metrics.debates_info[d].proposals_texts :
            d \in DOMAIN global_metrics.debates_info}

\* the text is formatted from a claim or proposal of the speaker name
FormattedFrom(text, speaker_name) ==
    /\ Len(text) >= Len(speaker_name) + 2
    /\ SubSeq(text, 1, Len(speaker_name) + 2) = speaker_name \o <<":", " ">>

\* C16: the claims and proposals of an intervention whose speaker is MODERADOR
\* or DECLARACIONES are in no dedup map of the speaker, party or debate scope,
\* while every fallacy of every intervention, whoever speaks, is in the
\* speaker's map, in the party's map and in the map stored for its debate when
\* the file is closed.
C16_PseudoSpeakersLeftOut ==
    /\ \A m \in ClaimAndProposalMaps : \A text \in DOMAIN m :
           /\ ~FormattedFrom(text, <<"MODERADOR">>)
           /\ ~FormattedFrom(text, <<"DECLARACIONES">>)
    /\ \A k \in 1..Len(processed) : \A t \in FormattedOf(processed[k], "fallacies") :
           /\ t \in DOMAIN speaker_metrics[processed[k].speaker_key].fallacies_texts
           /\ t \in DOMAIN party_metrics[processed[k].party_key].fallacies_texts
           /\ (Aggregated /\ k \in OfLastFile)
                  => t \in DOMAIN global_metrics.debates_info[processed[k].debate_id].fallacies_texts

\* a file is closed in which MODERADOR or DECLARACIONES has an intervention with
\* an id, a claim, a proposal and a fallacy: the claim and proposal maps of
\* that speaker are empty and the fallacy is in the three maps
C16_Witness ==
    /\ Aggregated
    /\ \E k \in OfLastFile :
        LET entry == processed[k]
        IN  /\ excluded(entry.speaker_name)
            /\ Truthy(entry.intervention.id)
            /\ \E c \in Range(children_of(entry.intervention.claims)) : child_text(c) # <<>>
            /\ \E c \in Range(children_of(entry.intervention.proposals)) : child_text(c) # <<>>
            /\ speaker_metrics[entry.speaker_key].claims > 0
            /\ speaker_metrics[entry.speaker_key].claims_texts = <<>>
            /\ speaker_metrics[entry.speaker_key].proposals_texts = <<>>
            /\ FormattedOf(entry, "fallacies") # {}
            /\ FormattedOf(entry, "fallacies")
                   \subseteq DOMAIN global_metrics.debates_info[entry.debate_id].fallacies_texts

\* the places, in order, of the interventions with the topic label
RECURSIVE WithTopic(_, _, _)
WithTopic(places, label, k) ==
    IF k > Len(processed) THEN <<>>
    ELSE (IF k \in places /\ intervention_topic(processed[k].intervention) = label
          THEN <<k>> ELSE <<>>)
         \o WithTopic(places, label, k + 1)

\* the entry of a label agrees with the interventions at the places
TopicEntryAgrees(entry, places, label) ==
    LET with == WithTopic(places, label, 1)
    IN  /\ with # <<>>
        /\ entry.debate_id = processed[with[1]].debate_id
        /\ Some(entry.intervention) = processed[with[1]].intervention.id
        /\ entry.count = Len(with)
        /\ entry.full_text =
               join(<<" ">>, [n \in 1..Len(with) |->
                                 processed[with[n]].info.full_intervention_text])

\* C17: in the topic map of every scope, the entry of a non-empty label keeps
\* the debate id and intervention id of the first intervention seen with the
\* label, counts the interventions of the scope with the label, and holds their
\* texts joined by single spaces in processing order.
C17_TopicEntries ==
    Aggregated =>
        /\ \A sc \in Scopes : \A label \in DOMAIN sc.acc.topics :
               label # "" => TopicEntryAgrees(sc.acc.topics[label], sc.places, label)
        /\ (file_no >= 1 /\ agg_input[file_no].parses) =>
               LET topics_of_debate == global_metrics.debates_info[local.debate_id].topics
               IN  \A label \in DOMAIN topics_of_debate :
                       label # "" =>
                           TopicEntryAgrees(
                               [topics_of_debate[label] EXCEPT !.intervention = attr(@, <<>>)],
                               OfLastFile, label)

\* the interventions at the places whose linguistic stats were added to the sums
WithStats(places) == {k \in places : parsed_stats(processed[k].intervention) # <<>>}

\* C18: in every speaker and party record the linguistic-stats hit-count is the
\* number of interventions whose stats were added to the sums (so that sum /
\* hit-count is the mean per intervention), and the debate scope holds no
\* linguistic stats.
C18_HitCountCountsInterventions ==
    Aggregated =>
        /\ \A sc \in Scopes :
               sc.acc.linguistic_stats_count = Cardinality(WithStats(sc.places))
        /\ \A d \in DOMAIN global_metrics.debates_info :
               /\ "linguistic_stats" \notin DOMAIN global_metrics.debates_info[d]
               /\ "linguistic_stats_count" \notin DOMAIN global_metrics.debates_info[d]

\* the occurrences of an emotion in the tags of an intervention's sentences
Occurrences(intervention, e) ==
    Cardinality({n \in 1..Len(emotion_list(intervention)) :
                    emotion_list(intervention)[n] = e})

\* the emotions of the inputs
Emotions == {<<"joy">>, <<"fear">>}

\* C19: after aggregating any sequence of debates, in every speaker and party
\* record and for every emotion e, emotions[e], the sum over debates of
\* emotions_by_debate[d][e] and the sum over (debate, intervention) of
\* interventions_emotions[d][i][e] are equal, and equal to the number of
\* non-empty trimmed tag occurrences of e in the sentences of the scope's
\* interventions.
C19_EmotionIndexesAgree ==
    Aggregated =>
        \A sc \in Scopes : \A e \in Emotions :
            LET by_debate == sc.acc.emotions_by_debate
                by_intervention == sc.acc.interventions_emotions
                total == dict_get(sc.acc.emotions, e, 0)
            IN  /\ total = SumFn([k \in sc.places |->
                                     Occurrences(processed[k].intervention, e)])
                /\ total = SumFn([d \in DOMAIN by_debate |-> dict_get(by_debate[d], e, 0)])
                /\ total =
                       SumFn([d \in DOMAIN by_intervention |->
                                 SumFn([i \in DOMAIN by_intervention[d] |->
                                           dict_get(by_intervention[d][i], e, 0)])])

\* C20: after aggregating any sequence of debates, the intervention ->
\* mention-list map of every speaker and party holds, for every intervention
\* counted in the scope, the mention list of that intervention as it stands in
\* the document.
C20_MentionsVerbatim ==
    Aggregated =>
        \A sc \in Scopes : \A k \in sc.places :
            LET intervention == processed[k].intervention
                map == attr(sc.acc.intervention_mentions, <<>>)
            IN  /\ Truthy(intervention.id)
                /\ intervention.id[1] \in DOMAIN map
                /\ map[intervention.id[1]] = mentions_data(intervention)

\* the intervention process_block is about to hand to process_intervention
Current == agg_input[file_no].blocks[block_no + 1].interventions[1][int_no + 1]

\* a step of process_block's loop: process_intervention is called on Current
Processing ==
    /\ apc = "interventions"
    /\ int_no < Len(agg_input[file_no].blocks[block_no + 1].interventions[1])
    /\ (int_no' = int_no + 1 \/ apc' = "raised")

\* the records of the speaker and of the party of Current, before the step (as
\* created on first sight when the key is new) and after it
SpeakerKey == speaker_key_of(local.participants_mapping, Current.participant_id)
PartyKey == party_key_of(local.participants_mapping, Current.participant_id)

SpeakerBefore ==
    dict_get(speaker_metrics, SpeakerKey,
             new_speaker(SpeakerKey, party_of(local.participants_mapping,
                                              Current.participant_id)))

PartyBefore == dict_get(party_metrics, PartyKey, new_party)

\* the sub-structures an intervention may lack
OptionalKinds == Kinds \cup {"mentions"}

Lacks(intervention, kind) ==
    IF kind = "mentions" THEN intervention.mentions = None
    ELSE NodeOf(intervention, kind) = None

\* C21: aggregating an intervention that lacks the mentions, proposals, claims
\* or fallacies node raises no error; a missing claims, proposals or fallacies
\* node adds zero to the count of its kind and leaves the dedup map of its kind
\* as it was, in the speaker's and the party's record and in the global counts;
\* missing mentions are stored as the empty list; and the intervention, its
\* sentences and its words are counted as usual.
C21_MissingNodesTolerated ==
    [][\A kind \in OptionalKinds :
          (Processing /\ Current.sentences # None /\ Lacks(Current, kind)) =>
              /\ apc' = "interventions"
              /\ SpeakerKey \in DOMAIN speaker_metrics'
              /\ PartyKey \in DOMAIN party_metrics'
              /\ kind \in Kinds =>
                    /\ CountOf(speaker_metrics'[SpeakerKey], kind) = CountOf(SpeakerBefore, kind)
                    /\ CountOf(party_metrics'[PartyKey], kind) = CountOf(PartyBefore, kind)
                    /\ CountOf(global_metrics', kind) = CountOf(global_metrics, kind)
                    /\ TextsOf(speaker_metrics'[SpeakerKey], kind) = TextsOf(SpeakerBefore, kind)
                    /\ TextsOf(party_metrics'[PartyKey], kind) = TextsOf(PartyBefore, kind)
              /\ (kind = "mentions" /\ Truthy(Current.id)) =>
                    attr(speaker_metrics'[SpeakerKey].intervention_mentions, <<>>)[Current.id[1]]
                        = <<>>
              /\ speaker_metrics'[SpeakerKey].interventions = SpeakerBefore.interventions + 1
              /\ party_metrics'[PartyKey].interventions = PartyBefore.interventions + 1
              /\ global_metrics'.interventions = global_metrics.interventions + 1
              /\ speaker_metrics'[SpeakerKey].sentences
                     = SpeakerBefore.sentences + Len(sentences_list(Current))
              /\ speaker_metrics'[SpeakerKey].words
                     = SpeakerBefore.words + SumSeq(sentence_word_counts(Current))
              /\ \A other \in Kinds :
                     CountOf(speaker_metrics'[SpeakerKey], other)
                         = CountOf(SpeakerBefore, other)
                               + Len(children_of(NodeOf(Current, other)))]_vars

\* an intervention without a proposals node and without a mentions node has
\* been aggregated after one that has them: the speaker's proposals count is
\* that of the first alone, and the claims of both are counted
C21_Witness ==
    /\ Len(processed) = 2
    /\ processed[1].speaker_key = processed[2].speaker_key
    /\ processed[1].intervention.proposals # None
    /\ processed[2].intervention.proposals = None
    /\ processed[2].intervention.mentions = None
    /\ processed[2].intervention.claims # None
    /\ speaker_metrics[processed[2].speaker_key].proposals
           = Len(children_of(processed[1].intervention.proposals))
    /\ speaker_metrics[processed[2].speaker_key].proposals > 0
    /\ speaker_metrics[processed[2].speaker_key].claims
           = Len(children_of(processed[1].intervention.claims))
               + Len(children_of(processed[2].intervention.claims))

\* the count fields every scope holds
CountFields == {"interventions", "sentences", "words", "claims", "proposals", "fallacies"}

FieldOf(acc, field) ==
    CASE field = "interventions" -> acc.interventions
      [] field = "sentences" -> acc.sentences
      [] field = "words" -> acc.words
      [] field = "claims" -> acc.claims
      [] field = "proposals" -> acc.proposals
      [] field = "fallacies" -> acc.fallacies

\* C28: as long as no exception has left the aggregation, and so after any
\* sequence of debates aggregated, each of interventions, sentences, words,
\* claims, proposals and fallacies summed over all speaker records equals the
\* global total, and summed over all party records equals it too.
C28_ScopesSumToGlobal ==
    apc # "raised" =>
        \A field \in CountFields :
            /\ SumFn([s \in DOMAIN speaker_metrics |-> FieldOf(speaker_metrics[s], field)])
                   = FieldOf(global_metrics, field)
            /\ SumFn([p \in DOMAIN party_metrics |-> FieldOf(party_metrics[p], field)])
                   = FieldOf(global_metrics, field)

\* two files have been aggregated, with interventions of two speakers at
\* least and of two parties at least, and with words and claims counted
C28_Witness ==
    /\ Aggregated
    /\ file_no = 2
    /\ Cardinality(DOMAIN speaker_metrics) >= 2
    /\ Cardinality(DOMAIN party_metrics) >= 2
    /\ global_metrics.interventions >= 3
    /\ global_metrics.words > global_metrics.sentences
    /\ global_metrics.claims > 0

\* the orders of a sequence
Orders(s) ==
    {[i \in 1..Len(s) |-> s[p[i]]] :
        p \in {q \in [1..Len(s) -> 1..Len(s)] :
                  \A i, j \in 1..Len(s) : q[i] = q[j] => i = j}}

\* the accumulators before the first file
Fresh == [sm |-> <<>>, pm |-> <<>>, gm |-> new_global_metrics, ok |-> TRUE]

\* the count fields and the per-emotion counts of the records of a scope
CountsOf(records) ==
    [k \in DOMAIN records |->
        [counts |-> [field \in CountFields |-> FieldOf(records[k], field)],
         emotions |-> records[k].emotions]]

\* the walk has ended, every file taken and none having raised
WalkDone == Aggregated /\ file_no = Len(agg_input)

C25_TurnsUnderTheirBlock ==
    pc \in {"rows", "written"} =>
        /\ \A b \in 1..Len(root.blocks) : Len(root.blocks[b].children) = 1
        /\ \A i \in PlacedRows :
               Holding(blocks, TurnStart(i)) # {} =>
                   BlocksHolding(placed[i][1]) = Holding(blocks, TurnStart(i))

\* the format of a timestamp string: MM:SS.fff or HH:MM:SS.ffffff
IsMS(t) == t.h = None /\ Len(t.f) = 3
IsHMS(t) == t.h # None /\ Len(t.f) = 6

\* the two strings, one of each format, denote the same instant: no hours in
\* the longer one, the same minutes and seconds, and the same fraction written
\* with three more zeros
SameInstant(a, b) ==
    /\ IsMS(a) /\ IsHMS(b)
    /\ b.h = Some(0)
    /\ a.m = b.m /\ a.s = b.s
    /\ b.f = a.f \o <<0, 0, 0>>

\* the timestamps of the lines of an annotation file
StampsIn(f) == {f[n].tiempo : n \in {k \in 1..Len(f) : f[k].tag = "time"}}

\* C24: two timestamp strings that denote the same instant, one MM:SS.fff and
\* one HH:MM:SS.ffffff, are parsed to equal values, so a turn stamped in one
\* format finds, by the exact-timestamp lookups, the mentions, proposals and
\* claims of an annotation entry stamped in the other.
C24_FormatsParseEqual ==
    \A i \in PlacedRows :
        \A b \in StampsIn(input.entidades_txt) \cup StampsIn(input.proposals_txt)
                    \cup StampsIn(input.fact_checking_txt) :
            (SameInstant(df[i].inicio, b) \/ SameInstant(b, df[i].inicio)) =>
                /\ parse_time(df[i].inicio) = parse_time(b)
                /\ b \in StampsIn(input.entidades_txt) =>
                       /\ Matches(entities, TurnStart(i)) # {}
                       /\ assign_entities(TurnStart(i), entities)
                              = FoundAt(entities, parse_time(MatchedToken(b)))
                /\ b \in StampsIn(input.proposals_txt) =>
                       /\ Matches(proposals, TurnStart(i)) # {}
                       /\ assign_proposals(TurnStart(i), proposals)
                              = Some(FoundAt(proposals, parse_time(MatchedToken(b))))
                /\ b \in StampsIn(input.fact_checking_txt) =>
                       /\ Matches(fact_checking, TurnStart(i)) # {}
                       /\ assign_fact_checking(TurnStart(i), fact_checking)
                              = Some(FoundAt(fact_checking, parse_time(MatchedToken(b))))

\* a turn stamped MM:SS.fff at a time that is not zero carries the mention, the
\* proposal and the claim of entries stamped HH:MM:SS.ffffff
C24_Witness ==
    /\ pc = "written"
    /\ PlacedRows = {1}
    /\ TurnStart(1) > 0
    /\ \A f \in {input.entidades_txt, input.proposals_txt, input.fact_checking_txt} :
           \E b \in StampsIn(f) : SameInstant(df[1].inicio, b)
    /\ ElementOf(1).mentions # None
    /\ ElementOf(1).proposals # None
    /\ ElementOf(1).claims # None

\* the participant elements with the full name
ParticipantsNamed(name) ==
    {k \in 1..Len(root.participants) : root.participants[k].full_name = name}

SpeakerNames == {input.speakers_csv[i].speaker_name : i \in 1..Len(input.speakers_csv)}

\* C30: in the document being assembled there is exactly one participant
\* element for every distinct name of the speakers table and none for another
\* name, the participant ids are pairwise distinct, and the participant-id of
\* every intervention is the id of the participant element whose full name is
\* the speaker of the turn.
C30_OneParticipantPerSpeaker ==
    pc \in {"rows", "written"} =>
        /\ \A name \in SpeakerNames : Cardinality(ParticipantsNamed(name)) = 1
        /\ \A k \in 1..Len(root.participants) :
               root.participants[k].full_name \in SpeakerNames
        /\ \A j, k \in 1..Len(root.participants) :
               root.participants[j].id = root.participants[k].id => j = k
        /\ \A i \in PlacedRows :
               /\ ParticipantsNamed(df[i].nombre) # {}
               /\ \A k \in ParticipantsNamed(df[i].nombre) :
                      ElementOf(i).participant_id = root.participants[k].id

\* a document is written from a speakers table that repeats a name before a
\* second speaker's row: two participant elements, the second with the id p2,
\* and a turn of each speaker
C30_Witness ==
    /\ pc = "written"
    /\ Len(input.speakers_csv) = 3
    /\ Len(root.participants) = 2
    /\ root.participants[2].id = FmtId(<<"p">>, 2)
    /\ PlacedRows = {1, 2}
    /\ ElementOf(1).participant_id # ElementOf(2).participant_id
    /\ ElementOf(2).participant_id = FmtId(<<"p">>, 0)

\* a response line that parses as an element and lacks one of the three
\* attributes
Incomplete(line) ==
    /\ line.kind = "element"
    /\ (line.int_id = None \/ line.sent_id = None \/ line.tags = None)

\* C26: a response line that parses as an element but does not carry all of
\* int_id, sent_id and tags changes no sentence, and the batch goes on and is
\* written without an error.
C26_IncompleteRecordSkipped ==
    /\ [][(LineStep({"element"}) /\ Incomplete(lines[line_no + 1]))
            => (filtered_root' = filtered_root /\ epc' = "lines")]_vars
    /\ [](epc # "raised")

(***************************************************************************)
(* The loop over fechas (SpecMain).                                        *)
(***************************************************************************)
\* the loop takes a date for which a required file is missing
SkipsDate ==
    /\ mpc = "loop"
    /\ fecha_no < Len(main_input)
    /\ ~(RequiredFiles \subseteq main_input[fecha_no + 1].present)
    /\ fecha_no' = fecha_no + 1

\* C22: when one of the seven required files of a date is missing, generate_xml
\* is not called and nothing is written for the date (no document of it exists
\* at any time), and the loop goes on to the later dates.
C22_MissingFileSkipsDebate ==
    /\ [][SkipsDate => (mpc' = "loop" /\ pc' = "idle" /\ outputs' = outputs)]_vars
    /\ [](\A k \in DOMAIN outputs : RequiredFiles \subseteq main_input[k].present)

\* the first date lacks a file, and the document of the second is written
C22_Witness ==
    /\ fecha_no = 2
    /\ mpc = "loop"
    /\ ~(RequiredFiles \subseteq main_input[1].present)
    /\ main_input[1].present # {}
    /\ DOMAIN outputs = {2}

\* a required table of the date is there and holds no row
EmptyTable(debate) ==
    /\ RequiredFiles \subseteq debate.present
    /\ (debate.files.segmentos_csv = <<>> \/ debate.files.speakers_csv = <<>>)

\* C23: a date whose turns table or speakers table is present but empty is
\* skipped: no document is written for it, no exception ends the run on it,
\* and the loop goes on to the later dates.
C23_EmptyTableSkipsDebate ==
    \A k \in 1..fecha_no :
        EmptyTable(main_input[k]) =>
            /\ k \notin DOMAIN outputs
            /\ ~(mpc = "aborted" /\ fecha_no = k)

(***************************************************************************)
(* The rate limiter (SpecRate).                                            *)
(***************************************************************************)
\* the calls issued in the span of interval seconds that starts at time t
IssuedIn(t) == {k \in 1..Len(issued) : t <= issued[k] /\ issued[k] < t + interval}

\* C27: across a sequence of rate_limited_api_call invocations that thread
\* call_count and start_time from call_count 0, no span of interval seconds
\* holds more than max_calls API calls, and the call_count returned is between
\* 1 and max_calls.
C27_AtMostMaxCallsPerInterval ==
    /\ \A t \in 0..MaxClock : Cardinality(IssuedIn(t)) <= max_calls
    /\ issued # <<>> => (1 <= call_count /\ call_count <= max_calls)

====
